------------------------------ MODULE OptionClasses -------------------------
(***************************************************************************)
(* The option, uninterpreted option and source info classes of              *)
(* descriptor.proto (descriptor.pb.cc, descriptor.pb.h).                    *)
(***************************************************************************)
EXTENDS ClassTables

(* The numbers an enum knows.                                                *)
FileOptions_OptimizeMode_IsValid == 1 .. 3
FieldOptions_CType_IsValid == 0 .. 2

-----------------------------------------------------------------------------
FileOptions_Fields == [
    java_package |-> Optional(1, "string"),
    java_outer_classname |-> Optional(8, "string"),
    java_multiple_files |-> Optional(10, "bool"),
    java_generate_equals_and_hash |-> Optional(20, "bool"),
    optimize_for |-> Optional(9, "FileOptions_OptimizeMode"),
    go_package |-> Optional(11, "string"),
    cc_generic_services |-> Optional(16, "bool"),
    java_generic_services |-> Optional(17, "bool"),
    py_generic_services |-> Optional(18, "bool"),
    uninterpreted_option |-> Repeated(999, "UninterpretedOption")]
FileOptions_HasBits == [
    java_package |-> 0, java_outer_classname |-> 1,
    java_multiple_files |-> 2, java_generate_equals_and_hash |-> 3,
    optimize_for |-> 4, go_package |-> 5, cc_generic_services |-> 6,
    java_generic_services |-> 7, py_generic_services |-> 8]
FileOptions_New == [
    java_package |-> <<>>, java_outer_classname |-> <<>>,
    java_multiple_files |-> 0, java_generate_equals_and_hash |-> 0,
    optimize_for |-> 1, go_package |-> <<>>, cc_generic_services |-> 0,
    java_generic_services |-> 0, py_generic_services |-> 0]
(* Slip: an enum whose default is 1 is reset to 0. *)
FileOptions_ClearToZero == <<
    Extensions,
    At(0, [java_package |-> <<>>, java_outer_classname |-> <<>>,
        java_multiple_files |-> 0, java_generate_equals_and_hash |-> 0,
        optimize_for |-> 0, go_package |-> <<>>, cc_generic_services |-> 0,
        java_generic_services |-> 0]),
    At(8, [py_generic_services |-> 0]), Always({"uninterpreted_option"}),
    Unknown>>

FileOptions_Clear == <<
    Extensions,
    At(0, [java_package |-> <<>>, java_outer_classname |-> <<>>,
        java_multiple_files |-> 0, java_generate_equals_and_hash |-> 0,
        optimize_for |-> 1, go_package |-> <<>>, cc_generic_services |-> 0,
        java_generic_services |-> 0]),
    At(8, [py_generic_services |-> 0]), Always({"uninterpreted_option"}),
    Unknown>>
FileOptions_Parse == {
    Reads(1, "java_package", "string"),
    Reads(8, "java_outer_classname", "string"),
    Reads(9, "optimize_for", "FileOptions_OptimizeMode"),
    Reads(10, "java_multiple_files", "bool"),
    Reads(11, "go_package", "string"),
    Reads(16, "cc_generic_services", "bool"),
    Reads(17, "java_generic_services", "bool"),
    Reads(18, "py_generic_services", "bool"),
    Reads(20, "java_generate_equals_and_hash", "bool"),
    Reads(999, "uninterpreted_option", "UninterpretedOption")}
FileOptions_SerializeWithCachedSizes == <<
    <<1, "java_package">>, <<8, "java_outer_classname">>,
    <<9, "optimize_for">>, <<10, "java_multiple_files">>,
    <<11, "go_package">>, <<16, "cc_generic_services">>,
    <<17, "java_generic_services">>, <<18, "py_generic_services">>,
    <<20, "java_generate_equals_and_hash">>,
    <<999, "uninterpreted_option">>, <<1000, "extensions">>>>
FileOptions_SerializeWithCachedSizesToArray == <<
    <<1, "java_package">>, <<8, "java_outer_classname">>,
    <<9, "optimize_for">>, <<10, "java_multiple_files">>,
    <<11, "go_package">>, <<16, "cc_generic_services">>,
    <<17, "java_generic_services">>, <<18, "py_generic_services">>,
    <<20, "java_generate_equals_and_hash">>,
    <<999, "uninterpreted_option">>, <<1000, "extensions">>>>
FileOptions_ByteSize == <<
    At(0, [java_package |-> 1, java_outer_classname |-> 1, java_multiple_files |-> 1,
        java_generate_equals_and_hash |-> 2, optimize_for |-> 1, go_package |-> 1,
        cc_generic_services |-> 2, java_generic_services |-> 2]),
    At(8, [py_generic_services |-> 2]),
    Always([uninterpreted_option |-> 2]), Extensions, Unknown>>
FileOptions_MergeFrom == <<
    Always({"uninterpreted_option"}),
    At(0, {"java_package", "java_outer_classname", "java_multiple_files",
        "java_generate_equals_and_hash", "optimize_for", "go_package",
        "cc_generic_services", "java_generic_services"}),
    At(8, {"py_generic_services"}), Extensions, Unknown>>
FileOptions_IsInitialized ==
    [required |-> {},
     visits |-> {"uninterpreted_option"}]
FileOptions_Swap == {
    "java_package", "java_outer_classname", "java_multiple_files",
    "java_generate_equals_and_hash", "optimize_for", "go_package",
    "cc_generic_services", "java_generic_services", "py_generic_services",
    "uninterpreted_option", "extensions"}
FileOptions_offsets == <<
    "java_package", "java_outer_classname", "java_multiple_files",
    "java_generate_equals_and_hash", "optimize_for", "go_package",
    "cc_generic_services", "java_generic_services", "py_generic_services",
    "uninterpreted_option">>
FileOptions == Class(
    FileOptions_Fields, FileOptions_HasBits, FileOptions_New,
    FileOptions_Clear, FileOptions_Parse,
    FileOptions_SerializeWithCachedSizes,
    FileOptions_SerializeWithCachedSizesToArray, FileOptions_ByteSize,
    FileOptions_MergeFrom, FileOptions_IsInitialized, FileOptions_Swap,
    FileOptions_offsets, 1000)

-----------------------------------------------------------------------------
MessageOptions_Fields == [
    message_set_wire_format |-> Optional(1, "bool"),
    no_standard_descriptor_accessor |-> Optional(2, "bool"),
    uninterpreted_option |-> Repeated(999, "UninterpretedOption")]
MessageOptions_HasBits == [
    message_set_wire_format |-> 0, no_standard_descriptor_accessor |-> 1]
MessageOptions_New == [
    message_set_wire_format |-> 0, no_standard_descriptor_accessor |-> 0]
MessageOptions_Clear == <<
    Extensions,
    At(0, [message_set_wire_format |-> 0, no_standard_descriptor_accessor |-> 0]),
    Always({"uninterpreted_option"}), Unknown>>
MessageOptions_Parse == {
    Reads(1, "message_set_wire_format", "bool"),
    Reads(2, "no_standard_descriptor_accessor", "bool"),
    Reads(999, "uninterpreted_option", "UninterpretedOption")}
MessageOptions_SerializeWithCachedSizes == <<
    <<1, "message_set_wire_format">>,
    <<2, "no_standard_descriptor_accessor">>,
    <<999, "uninterpreted_option">>, <<1000, "extensions">>>>
MessageOptions_SerializeWithCachedSizesToArray == <<
    <<1, "message_set_wire_format">>,
    <<2, "no_standard_descriptor_accessor">>,
    <<999, "uninterpreted_option">>, <<1000, "extensions">>>>
MessageOptions_ByteSize == <<
    At(0, [message_set_wire_format |-> 1, no_standard_descriptor_accessor |-> 1]),
    Always([uninterpreted_option |-> 2]), Extensions, Unknown>>
MessageOptions_MergeFrom == <<
    Always({"uninterpreted_option"}),
    At(0, {"message_set_wire_format", "no_standard_descriptor_accessor"}),
    Extensions, Unknown>>
MessageOptions_IsInitialized ==
    [required |-> {},
     visits |-> {"uninterpreted_option"}]
MessageOptions_Swap == {
    "message_set_wire_format", "no_standard_descriptor_accessor",
    "uninterpreted_option", "extensions"}
MessageOptions_offsets == <<
    "message_set_wire_format", "no_standard_descriptor_accessor",
    "uninterpreted_option">>
MessageOptions == Class(
    MessageOptions_Fields, MessageOptions_HasBits, MessageOptions_New,
    MessageOptions_Clear, MessageOptions_Parse,
    MessageOptions_SerializeWithCachedSizes,
    MessageOptions_SerializeWithCachedSizesToArray,
    MessageOptions_ByteSize, MessageOptions_MergeFrom,
    MessageOptions_IsInitialized, MessageOptions_Swap,
    MessageOptions_offsets, 1000)

-----------------------------------------------------------------------------
FieldOptions_Fields == [
    ctype |-> Optional(1, "FieldOptions_CType"),
    packed |-> Optional(2, "bool"), lazy |-> Optional(5, "bool"),
    deprecated |-> Optional(3, "bool"),
    experimental_map_key |-> Optional(9, "string"),
    weak |-> Optional(10, "bool"),
    uninterpreted_option |-> Repeated(999, "UninterpretedOption")]
FieldOptions_HasBits == [
    ctype |-> 0, packed |-> 1, lazy |-> 2, deprecated |-> 3,
    experimental_map_key |-> 4, weak |-> 5]
FieldOptions_New == [
    ctype |-> 0, packed |-> 0, lazy |-> 0, deprecated |-> 0,
    experimental_map_key |-> <<>>, weak |-> 0]
FieldOptions_Clear == <<
    Extensions,
    At(0, [ctype |-> 0, packed |-> 0, lazy |-> 0, deprecated |-> 0,
        experimental_map_key |-> <<>>, weak |-> 0]),
    Always({"uninterpreted_option"}), Unknown>>
FieldOptions_Parse == {
    Reads(1, "ctype", "FieldOptions_CType"), Reads(2, "packed", "bool"),
    Reads(3, "deprecated", "bool"), Reads(5, "lazy", "bool"),
    Reads(9, "experimental_map_key", "string"), Reads(10, "weak", "bool"),
    Reads(999, "uninterpreted_option", "UninterpretedOption")}
FieldOptions_SerializeWithCachedSizes == <<
    <<1, "ctype">>, <<2, "packed">>, <<3, "deprecated">>, <<5, "lazy">>,
    <<9, "experimental_map_key">>, <<10, "weak">>,
    <<999, "uninterpreted_option">>, <<1000, "extensions">>>>
FieldOptions_SerializeWithCachedSizesToArray == <<
    <<1, "ctype">>, <<2, "packed">>, <<3, "deprecated">>, <<5, "lazy">>,
    <<9, "experimental_map_key">>, <<10, "weak">>,
    <<999, "uninterpreted_option">>, <<1000, "extensions">>>>
FieldOptions_ByteSize == <<
    At(0, [ctype |-> 1, packed |-> 1, lazy |-> 1, deprecated |-> 1,
        experimental_map_key |-> 1, weak |-> 1]),
    Always([uninterpreted_option |-> 2]), Extensions, Unknown>>
FieldOptions_MergeFrom == <<
    Always({"uninterpreted_option"}),
    At(0, {"ctype", "packed", "lazy", "deprecated", "experimental_map_key", "weak"}),
    Extensions, Unknown>>
FieldOptions_IsInitialized ==
    [required |-> {},
     visits |-> {"uninterpreted_option"}]
FieldOptions_Swap == {
    "ctype", "packed", "lazy", "deprecated", "experimental_map_key",
    "weak", "uninterpreted_option", "extensions"}
FieldOptions_offsets == <<
    "ctype", "packed", "lazy", "deprecated", "experimental_map_key",
    "weak", "uninterpreted_option">>
FieldOptions == Class(
    FieldOptions_Fields, FieldOptions_HasBits, FieldOptions_New,
    FieldOptions_Clear, FieldOptions_Parse,
    FieldOptions_SerializeWithCachedSizes,
    FieldOptions_SerializeWithCachedSizesToArray, FieldOptions_ByteSize,
    FieldOptions_MergeFrom, FieldOptions_IsInitialized, FieldOptions_Swap,
    FieldOptions_offsets, 1000)

-----------------------------------------------------------------------------
EnumOptions_Fields == [
    allow_alias |-> Optional(2, "bool"),
    uninterpreted_option |-> Repeated(999, "UninterpretedOption")]
EnumOptions_HasBits == [allow_alias |-> 0]
EnumOptions_New == [allow_alias |-> 1]
EnumOptions_Clear == <<
    Extensions, At(0, [allow_alias |-> 1]),
    Always({"uninterpreted_option"}), Unknown>>
EnumOptions_Parse == {
    Reads(2, "allow_alias", "bool"),
    Reads(999, "uninterpreted_option", "UninterpretedOption")}
EnumOptions_SerializeWithCachedSizes == <<
    <<2, "allow_alias">>, <<999, "uninterpreted_option">>,
    <<1000, "extensions">>>>
EnumOptions_SerializeWithCachedSizesToArray == <<
    <<2, "allow_alias">>, <<999, "uninterpreted_option">>,
    <<1000, "extensions">>>>
EnumOptions_ByteSize == <<
    At(0, [allow_alias |-> 1]), Always([uninterpreted_option |-> 2]),
    Extensions, Unknown>>
EnumOptions_MergeFrom == <<
    Always({"uninterpreted_option"}), At(0, {"allow_alias"}), Extensions,
    Unknown>>
EnumOptions_IsInitialized ==
    [required |-> {},
     visits |-> {"uninterpreted_option"}]
EnumOptions_Swap == {"allow_alias", "uninterpreted_option", "extensions"}
EnumOptions_offsets == <<"allow_alias", "uninterpreted_option">>
EnumOptions == Class(
    EnumOptions_Fields, EnumOptions_HasBits, EnumOptions_New,
    EnumOptions_Clear, EnumOptions_Parse,
    EnumOptions_SerializeWithCachedSizes,
    EnumOptions_SerializeWithCachedSizesToArray, EnumOptions_ByteSize,
    EnumOptions_MergeFrom, EnumOptions_IsInitialized, EnumOptions_Swap,
    EnumOptions_offsets, 1000)

-----------------------------------------------------------------------------
EnumValueOptions_Fields == [
    uninterpreted_option |-> Repeated(999, "UninterpretedOption")]
EnumValueOptions_HasBits == <<>>
EnumValueOptions_New == <<>>
EnumValueOptions_Clear == <<
    Extensions, Always({"uninterpreted_option"}), Unknown>>
EnumValueOptions_Parse == {
    Reads(999, "uninterpreted_option", "UninterpretedOption")}
EnumValueOptions_SerializeWithCachedSizes == <<
    <<999, "uninterpreted_option">>, <<1000, "extensions">>>>
EnumValueOptions_SerializeWithCachedSizesToArray == <<
    <<999, "uninterpreted_option">>, <<1000, "extensions">>>>
EnumValueOptions_ByteSize == <<
    Always([uninterpreted_option |-> 2]), Extensions, Unknown>>
EnumValueOptions_MergeFrom == <<
    Always({"uninterpreted_option"}), Extensions, Unknown>>
EnumValueOptions_IsInitialized ==
    [required |-> {},
     visits |-> {"uninterpreted_option"}]
EnumValueOptions_Swap == {"uninterpreted_option", "extensions"}
EnumValueOptions_offsets == <<"uninterpreted_option">>
EnumValueOptions == Class(
    EnumValueOptions_Fields, EnumValueOptions_HasBits,
    EnumValueOptions_New, EnumValueOptions_Clear, EnumValueOptions_Parse,
    EnumValueOptions_SerializeWithCachedSizes,
    EnumValueOptions_SerializeWithCachedSizesToArray,
    EnumValueOptions_ByteSize, EnumValueOptions_MergeFrom,
    EnumValueOptions_IsInitialized, EnumValueOptions_Swap,
    EnumValueOptions_offsets, 1000)

-----------------------------------------------------------------------------
ServiceOptions_Fields == [
    uninterpreted_option |-> Repeated(999, "UninterpretedOption")]
ServiceOptions_HasBits == <<>>
ServiceOptions_New == <<>>
ServiceOptions_Clear == <<
    Extensions, Always({"uninterpreted_option"}), Unknown>>
ServiceOptions_Parse == {
    Reads(999, "uninterpreted_option", "UninterpretedOption")}
ServiceOptions_SerializeWithCachedSizes == <<
    <<999, "uninterpreted_option">>, <<1000, "extensions">>>>
ServiceOptions_SerializeWithCachedSizesToArray == <<
    <<999, "uninterpreted_option">>, <<1000, "extensions">>>>
ServiceOptions_ByteSize == <<
    Always([uninterpreted_option |-> 2]), Extensions, Unknown>>
ServiceOptions_MergeFrom == <<
    Always({"uninterpreted_option"}), Extensions, Unknown>>
ServiceOptions_IsInitialized ==
    [required |-> {},
     visits |-> {"uninterpreted_option"}]
ServiceOptions_Swap == {"uninterpreted_option", "extensions"}
ServiceOptions_offsets == <<"uninterpreted_option">>
ServiceOptions == Class(
    ServiceOptions_Fields, ServiceOptions_HasBits, ServiceOptions_New,
    ServiceOptions_Clear, ServiceOptions_Parse,
    ServiceOptions_SerializeWithCachedSizes,
    ServiceOptions_SerializeWithCachedSizesToArray,
    ServiceOptions_ByteSize, ServiceOptions_MergeFrom,
    ServiceOptions_IsInitialized, ServiceOptions_Swap,
    ServiceOptions_offsets, 1000)

-----------------------------------------------------------------------------
MethodOptions_Fields == [
    uninterpreted_option |-> Repeated(999, "UninterpretedOption")]
MethodOptions_HasBits == <<>>
MethodOptions_New == <<>>
MethodOptions_Clear == <<
    Extensions, Always({"uninterpreted_option"}), Unknown>>
MethodOptions_Parse == {
    Reads(999, "uninterpreted_option", "UninterpretedOption")}
MethodOptions_SerializeWithCachedSizes == <<
    <<999, "uninterpreted_option">>, <<1000, "extensions">>>>
MethodOptions_SerializeWithCachedSizesToArray == <<
    <<999, "uninterpreted_option">>, <<1000, "extensions">>>>

MethodOptions_ByteSize == <<
    Always([uninterpreted_option |-> 2]), Extensions, Unknown>>

MethodOptions_MergeFrom == <<
    Always({"uninterpreted_option"}), Extensions, Unknown>>
MethodOptions_IsInitialized ==
    [required |-> {},
     visits |-> {"uninterpreted_option"}]
MethodOptions_Swap == {"uninterpreted_option", "extensions"}
MethodOptions_offsets == <<"uninterpreted_option">>
MethodOptions == Class(
    MethodOptions_Fields, MethodOptions_HasBits, MethodOptions_New,
    MethodOptions_Clear, MethodOptions_Parse,
    MethodOptions_SerializeWithCachedSizes,
    MethodOptions_SerializeWithCachedSizesToArray, MethodOptions_ByteSize,
    MethodOptions_MergeFrom, MethodOptions_IsInitialized,
    MethodOptions_Swap, MethodOptions_offsets, 1000)

-----------------------------------------------------------------------------
UninterpretedOption_NamePart_Fields == [
    name_part |-> Required(1, "string"),
    is_extension |-> Required(2, "bool")]
UninterpretedOption_NamePart_HasBits == [
    name_part |-> 0, is_extension |-> 1]
UninterpretedOption_NamePart_New == [name_part |-> <<>>, is_extension |-> 0]
UninterpretedOption_NamePart_Clear == <<
    At(0, [name_part |-> <<>>, is_extension |-> 0]), Unknown>>

UninterpretedOption_NamePart_Parse == {
    Reads(1, "name_part", "string"), Reads(2, "is_extension", "bool")}
UninterpretedOption_NamePart_SerializeWithCachedSizes == <<
    <<1, "name_part">>, <<2, "is_extension">>>>
UninterpretedOption_NamePart_SerializeWithCachedSizesToArray == <<
    <<1, "name_part">>, <<2, "is_extension">>>>
UninterpretedOption_NamePart_ByteSize == <<
    At(0, [name_part |-> 1, is_extension |-> 1]), Unknown>>
UninterpretedOption_NamePart_MergeFrom == <<
    At(0, {"name_part", "is_extension"}), Unknown>>
UninterpretedOption_NamePart_IsInitialized ==
    [required |-> {0, 1},
     visits |-> {}]

UninterpretedOption_NamePart_Swap == {"name_part", "is_extension"}
UninterpretedOption_NamePart_offsets == <<"name_part", "is_extension">>
UninterpretedOption_NamePart == Class(
    UninterpretedOption_NamePart_Fields,
    UninterpretedOption_NamePart_HasBits, UninterpretedOption_NamePart_New,
    UninterpretedOption_NamePart_Clear, UninterpretedOption_NamePart_Parse,
    UninterpretedOption_NamePart_SerializeWithCachedSizes,
    UninterpretedOption_NamePart_SerializeWithCachedSizesToArray,
    UninterpretedOption_NamePart_ByteSize,
    UninterpretedOption_NamePart_MergeFrom,
    UninterpretedOption_NamePart_IsInitialized,
    UninterpretedOption_NamePart_Swap,
    UninterpretedOption_NamePart_offsets, 0)

-----------------------------------------------------------------------------
UninterpretedOption_Fields == [
    name |-> Repeated(2, "UninterpretedOption_NamePart"),
    identifier_value |-> Optional(3, "string"),
    positive_int_value |-> Optional(4, "uint64"),
    negative_int_value |-> Optional(5, "int64"),
    double_value |-> Optional(6, "double"),
    string_value |-> Optional(7, "bytes"),
    aggregate_value |-> Optional(8, "string")]
UninterpretedOption_HasBits == [
    identifier_value |-> 1, positive_int_value |-> 2,
    negative_int_value |-> 3, double_value |-> 4, string_value |-> 5,
    aggregate_value |-> 6]
UninterpretedOption_New == [
    identifier_value |-> <<>>, positive_int_value |-> 0,
    negative_int_value |-> 0, double_value |-> 0, string_value |-> <<>>,
    aggregate_value |-> <<>>]
UninterpretedOption_Clear == <<
    At(1, [identifier_value |-> <<>>, positive_int_value |-> 0,
        negative_int_value |-> 0, double_value |-> 0, string_value |-> <<>>,
        aggregate_value |-> <<>>]),
    Always({"name"}), Unknown>>
UninterpretedOption_Parse == {
    Reads(2, "name", "UninterpretedOption_NamePart"),
    Reads(3, "identifier_value", "string"),
    Reads(4, "positive_int_value", "uint64"),
    Reads(5, "negative_int_value", "int64"),
    Reads(6, "double_value", "double"), Reads(7, "string_value", "bytes"),
    Reads(8, "aggregate_value", "string")}
UninterpretedOption_SerializeWithCachedSizes == <<
    <<2, "name">>, <<3, "identifier_value">>, <<4, "positive_int_value">>,
    <<5, "negative_int_value">>, <<6, "double_value">>,
    <<7, "string_value">>, <<8, "aggregate_value">>>>
UninterpretedOption_SerializeWithCachedSizesToArray == <<
    <<2, "name">>, <<3, "identifier_value">>, <<4, "positive_int_value">>,
    <<5, "negative_int_value">>, <<6, "double_value">>,
    <<7, "string_value">>, <<8, "aggregate_value">>>>
UninterpretedOption_ByteSize == <<
    At(1, [identifier_value |-> 1, positive_int_value |-> 1, negative_int_value |-> 1,
        double_value |-> 1, string_value |-> 1, aggregate_value |-> 1]),
    Always([name |-> 1]), Unknown>>
UninterpretedOption_MergeFrom == <<
    Always({"name"}),
    At(1, {"identifier_value", "positive_int_value", "negative_int_value",
        "double_value", "string_value", "aggregate_value"}),
    Unknown>>
UninterpretedOption_IsInitialized ==
    [required |-> {},
     visits |-> {"name"}]
UninterpretedOption_Swap == {
    "identifier_value", "positive_int_value", "negative_int_value",
    "double_value", "string_value", "aggregate_value", "name"}
UninterpretedOption_offsets == <<
    "name", "identifier_value", "positive_int_value", "negative_int_value",
    "double_value", "string_value", "aggregate_value">>
UninterpretedOption == Class(
    UninterpretedOption_Fields, UninterpretedOption_HasBits,
    UninterpretedOption_New, UninterpretedOption_Clear,
    UninterpretedOption_Parse,
    UninterpretedOption_SerializeWithCachedSizes,
    UninterpretedOption_SerializeWithCachedSizesToArray,
    UninterpretedOption_ByteSize, UninterpretedOption_MergeFrom,
    UninterpretedOption_IsInitialized, UninterpretedOption_Swap,
    UninterpretedOption_offsets, 0)

-----------------------------------------------------------------------------
SourceCodeInfo_Location_Fields == [
    path |-> Packed(1, "int32"), span |-> Packed(2, "int32"),
    leading_comments |-> Optional(3, "string"),
    trailing_comments |-> Optional(4, "string")]
SourceCodeInfo_Location_HasBits == [
    leading_comments |-> 2, trailing_comments |-> 3]
SourceCodeInfo_Location_New == [
    leading_comments |-> <<>>, trailing_comments |-> <<>>]
SourceCodeInfo_Location_Clear == <<
    At(2, [leading_comments |-> <<>>, trailing_comments |-> <<>>]),
    Always({"path", "span"}), Unknown>>
(* Slip: the packed form is not read. *)
SourceCodeInfo_Location_ParseUnpackedOnly == {
    Reads(1, "path", "int32"), Reads(2, "span", "int32"),
    Reads(3, "leading_comments", "string"), Reads(4, "trailing_comments", "string")}

SourceCodeInfo_Location_Parse == {
    Either(1, "path", "int32"), Either(2, "span", "int32"),
    Reads(3, "leading_comments", "string"),
    Reads(4, "trailing_comments", "string")}
SourceCodeInfo_Location_SerializeWithCachedSizes == <<
    <<1, "path">>, <<2, "span">>, <<3, "leading_comments">>,
    <<4, "trailing_comments">>>>
SourceCodeInfo_Location_SerializeWithCachedSizesToArray == <<
    <<1, "path">>, <<2, "span">>, <<3, "leading_comments">>,
    <<4, "trailing_comments">>>>
SourceCodeInfo_Location_ByteSize == <<
    At(2, [leading_comments |-> 1, trailing_comments |-> 1]),
    Always([path |-> 1, span |-> 1]), Unknown>>
SourceCodeInfo_Location_MergeFrom == <<
    Always({"path", "span"}),
    At(2, {"leading_comments", "trailing_comments"}), Unknown>>
SourceCodeInfo_Location_IsInitialized ==
    [required |-> {},
     visits |-> {}]
SourceCodeInfo_Location_Swap == {
    "leading_comments", "trailing_comments", "path", "span"}
SourceCodeInfo_Location_offsets == <<
    "path", "span", "leading_comments", "trailing_comments">>
SourceCodeInfo_Location == Class(
    SourceCodeInfo_Location_Fields, SourceCodeInfo_Location_HasBits,
    SourceCodeInfo_Location_New, SourceCodeInfo_Location_Clear,
    SourceCodeInfo_Location_Parse,
    SourceCodeInfo_Location_SerializeWithCachedSizes,
    SourceCodeInfo_Location_SerializeWithCachedSizesToArray,
    SourceCodeInfo_Location_ByteSize, SourceCodeInfo_Location_MergeFrom,
    SourceCodeInfo_Location_IsInitialized, SourceCodeInfo_Location_Swap,
    SourceCodeInfo_Location_offsets, 0)

-----------------------------------------------------------------------------
SourceCodeInfo_Fields == [
    location |-> Repeated(1, "SourceCodeInfo_Location")]
SourceCodeInfo_HasBits == <<>>
SourceCodeInfo_New == <<>>
SourceCodeInfo_Clear == <<Always({"location"}), Unknown>>
SourceCodeInfo_Parse == {Reads(1, "location", "SourceCodeInfo_Location")}
SourceCodeInfo_SerializeWithCachedSizes == <<<<1, "location">>>>
SourceCodeInfo_SerializeWithCachedSizesToArray == <<<<1, "location">>>>
SourceCodeInfo_ByteSize == <<Always([location |-> 1]), Unknown>>
SourceCodeInfo_MergeFrom == <<Always({"location"}), Unknown>>
SourceCodeInfo_IsInitialized == [required |-> {}, visits |-> {}]
SourceCodeInfo_Swap == {"location"}
SourceCodeInfo_offsets == <<"location">>
SourceCodeInfo == Class(
    SourceCodeInfo_Fields, SourceCodeInfo_HasBits, SourceCodeInfo_New,
    SourceCodeInfo_Clear, SourceCodeInfo_Parse,
    SourceCodeInfo_SerializeWithCachedSizes,
    SourceCodeInfo_SerializeWithCachedSizesToArray,
    SourceCodeInfo_ByteSize, SourceCodeInfo_MergeFrom,
    SourceCodeInfo_IsInitialized, SourceCodeInfo_Swap,
    SourceCodeInfo_offsets, 0)
=============================================================================
