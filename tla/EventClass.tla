------------------------------ MODULE EventClass ----------------------------
(***************************************************************************)
(* The class protoc generated for the editor's own message, Event           *)
(* (textevent.cpp, textevent.h).                                            *)
(***************************************************************************)
EXTENDS ClassTables

(* The numbers an enum knows.                                                *)
EventType_IsValid == 0 .. 4

-----------------------------------------------------------------------------
Event_Fields == [
    eventtype |-> Optional(1, "EventType"),
    initialcursorlocation |-> Optional(2, "int32"),
    newcursorlocation |-> Optional(3, "int32"),
    changelength |-> Optional(4, "int32"),
    textadded |-> Optional(5, "string"), userid |-> Optional(6, "int64")]
Event_HasBits == [
    eventtype |-> 0, initialcursorlocation |-> 1, newcursorlocation |-> 2,
    changelength |-> 3, textadded |-> 4, userid |-> 5]
Event_New == [
    eventtype |-> 0, initialcursorlocation |-> 0, newcursorlocation |-> 0,
    changelength |-> 0, textadded |-> <<>>, userid |-> 0]
Event_Clear == <<
    At(0, [eventtype |-> 0, initialcursorlocation |-> 0, newcursorlocation |-> 0,
        changelength |-> 0, textadded |-> <<>>, userid |-> 0]),
    Unknown>>
Event_Parse == {
    Reads(1, "eventtype", "EventType"),
    Reads(2, "initialcursorlocation", "int32"),
    Reads(3, "newcursorlocation", "int32"),
    Reads(4, "changelength", "int32"), Reads(5, "textadded", "string"),
    Reads(6, "userid", "int64")}
Event_SerializeWithCachedSizes == <<
    <<1, "eventtype">>, <<2, "initialcursorlocation">>,
    <<3, "newcursorlocation">>, <<4, "changelength">>, <<5, "textadded">>,
    <<6, "userid">>>>
Event_SerializeWithCachedSizesToArray == <<
    <<1, "eventtype">>, <<2, "initialcursorlocation">>,
    <<3, "newcursorlocation">>, <<4, "changelength">>, <<5, "textadded">>,
    <<6, "userid">>>>
Event_ByteSize == <<
    At(0, [eventtype |-> 1, initialcursorlocation |-> 1, newcursorlocation |-> 1,
        changelength |-> 1, textadded |-> 1, userid |-> 1]),
    Unknown>>
Event_MergeFrom == <<
    At(0, {"eventtype", "initialcursorlocation", "newcursorlocation", "changelength",
        "textadded", "userid"}),
    Unknown>>
Event_IsInitialized == [required |-> {}, visits |-> {}]
Event_Swap == {
    "eventtype", "initialcursorlocation", "newcursorlocation",
    "changelength", "textadded", "userid"}
Event_offsets == <<
    "eventtype", "initialcursorlocation", "newcursorlocation",
    "changelength", "textadded", "userid">>
Event == Class(
    Event_Fields, Event_HasBits, Event_New, Event_Clear, Event_Parse,
    Event_SerializeWithCachedSizes, Event_SerializeWithCachedSizesToArray,
    Event_ByteSize, Event_MergeFrom, Event_IsInitialized, Event_Swap,
    Event_offsets, 0)
=============================================================================
