----------------------------- MODULE EventCodec -----------------------------
(***************************************************************************)
(* How an edit travels: dataForEvent puts the size of the encoded Event in  *)
(* front of it, and parseDelimitedEventFromData takes the first event out   *)
(* of the data and returns the rest (ViewController.mm:718-751).            *)
(*                                                                          *)
(* Data is a sequence of frames, the size written and the encoded event.    *)
(* The reader is a CodedInputStream whose one chunk is all the data, known  *)
(* by its counters: how much is in the buffer, how much was set aside       *)
(* beyond the limit, and the limit.                                         *)
(***************************************************************************)
EXTENDS GeneratedMessage

CONSTANTS
    Types, Locations, Texts, Users, \* the values of an edit
    IntMax,
    MaxFrames                       \* bound on the events in one piece of data

VARIABLES
    sent,       \* the events encoded, in order
    wire,       \* the data left to read: Seq of frames
    message,    \* the object parsed into
    read,       \* what the calls have returned: Seq of objects
    at,         \* the line of parseDelimitedEventFromData reached
    stream      \* the reader's counters

codecVars == <<sent, wire, message, read, at, stream>>

Frame(size, body) == [size |-> size, body |-> body]
FrameSize(f) == VarintSize(f.size) + Size(f.body)
DataLength(frames) == FoldLeft(LAMBDA n, f : n + FrameSize(f), 0, frames)

-----------------------------------------------------------------------------
(* EventMessage: init, and the setters of initWithType.                     *)
Message(type, location, newLocation, text, user) ==
    LET set(o, f, v) == Set(o, f, v)
    IN  set(set(set(set(set(set(New("Event"),
            "initialcursorlocation", location), "newcursorlocation", newLocation),
            "eventtype", type), "changelength", Len(text)), "textadded", text), "userid", user)

Messages ==
    {Message(type, location, newLocation, text, user) :
        type \in Types, location \in Locations, newLocation \in Locations,
        text \in Texts, user \in Users}

BufferLength(size) == size + VarintSize(size)

(* WriteVarint32 and SerializeToCodedStream into an array of that length:   *)
(* what does not fit is lost, and nobody looks at HadError.                 *)
DataForEvent(event) ==
    LET size == ByteSize(event).size
    IN  Frame(size, IF BufferLength(size) < VarintSize(size) + size THEN <<>> ELSE Serialize(event))

-----------------------------------------------------------------------------
(* The reader (CodedInput has it whole).                                    *)
Position(s) == s.total - (s.size + s.beyond)

\* RecomputeBufferLimits.
Recompute(s, limit) ==
    LET full == s.size + s.beyond
        beyond == IF limit < s.total THEN s.total - limit ELSE 0
    IN  [s EXCEPT !.limit = limit, !.beyond = beyond, !.size = full - beyond]

Open(frames) ==
    [total |-> DataLength(frames), size |-> DataLength(frames), beyond |-> 0,
     limit |-> IntMax, wanted |-> 0]

Init ==
    /\ sent = <<>> /\ wire = <<>> /\ read = <<>>
    /\ message = New("Event")
    /\ at = "out"
    /\ stream = Open(<<>>)

\* broadcast: the events reach the receiver as one piece of data.
Broadcast ==
    /\ at = "out" /\ read = <<>> /\ Len(sent) < MaxFrames
    /\ \E event \in Messages :
          sent' = Append(sent, event) /\ wire' = Append(wire, DataForEvent(event))
    /\ UNCHANGED <<message, read, at, stream>>

\* The streams over the data, and ReadVarint32.
ReadSize ==
    /\ at = "out" /\ wire # <<>>
    /\ at' = "limit"
    /\ stream' = [Open(wire) EXCEPT !.size = @ - VarintSize(wire[1].size), !.wanted = wire[1].size]
    /\ UNCHANGED <<sent, wire, message, read>>

\* PushLimit: the limit lies where the size says.
Limited(s) == Recompute(s, IF Position(s) + s.wanted < s.limit THEN Position(s) + s.wanted ELSE s.limit)

PushLimit ==
    /\ at = "limit"
    /\ at' = "parse"
    /\ stream' = Limited(stream)
    /\ UNCHANGED <<sent, wire, message, read>>

(* ParseFromCodedStream: cleared, then read up to the limit.  Bytes that    *)
(* are not those of one event are not read as one.                          *)
ParseMessage ==
    /\ at = "parse"
    /\ at' = "pop"
    /\ message' = IF stream.size = Size(wire[1].body)
                   THEN ParseFrom(message, wire[1].body).obj ELSE Clear(message)
    /\ stream' = [stream EXCEPT !.size = 0]
    /\ UNCHANGED <<sent, wire, read>>

(* Slip: the buffer is not put together again.                              *)
PoppedShort(s) == [s EXCEPT !.limit = s.wanted, !.beyond = 0]

(* PopLimit, given the size of the message where it expects the limit that  *)
(* PushLimit returned: the limit now lies before the position, and the      *)
(* buffer holds a negative number of bytes.                                 *)
Popped(s) == Recompute(s, s.wanted)

PopLimit ==
    /\ at = "pop"
    /\ at' = "rest"
    /\ stream' = Popped(stream)
    /\ UNCHANGED <<sent, wire, message, read>>

(* The rest of the data, from the position on: nil when there is none.      *)
Rest ==
    /\ at = "rest"
    /\ at' = "out"
    /\ read' = Append(read, message)
    /\ wire' = IF Position(stream) = FrameSize(wire[1]) THEN Tail(wire) ELSE <<>>
    /\ UNCHANGED <<sent, message, stream>>

Next == Broadcast \/ ReadSize \/ PushLimit \/ ParseMessage \/ PopLimit \/ Rest

Spec == Init /\ [][Next]_codecVars

-----------------------------------------------------------------------------
(* Every event comes out as it went in, in order, from data that holds one  *)
(* or several, whatever the object parsed into held before: the size in     *)
(* front is that of the event, the limit keeps the parser from the next     *)
(* one, and the position after PopLimit is where the next one begins        *)
(* although the limit popped is not the one pushed (ViewController.mm:743). *)
EventsArrive ==
    /\ at = "out" => Len(read) + Len(wire) = Len(sent)
    /\ \A k \in DOMAIN read : k <= Len(sent) /\ View(read[k]) = View(sent[k])

(* The destructor gives back what lies beyond the position: as much as the  *)
(* array holds and no less than nothing, with the wrong limit popped too    *)
(* (coded_stream.cc:86-97).                                                 *)
GivesBackTheRest ==
    LET left == stream.size + stream.beyond
    IN  at = "rest" => left = DataLength(Tail(wire))
=============================================================================
