------------------------------ MODULE DescriptorClasses ---------------------
(***************************************************************************)
(* The classes of descriptor.proto that describe files, messages, fields,   *)
(* enums and services (descriptor.pb.cc, descriptor.pb.h).                  *)
(***************************************************************************)
EXTENDS ClassTables

(* The numbers an enum knows.                                                *)
FieldDescriptorProto_Type_IsValid == 1 .. 18
FieldDescriptorProto_Label_IsValid == 1 .. 3

-----------------------------------------------------------------------------
FileDescriptorSet_Fields == [file |-> Repeated(1, "FileDescriptorProto")]
FileDescriptorSet_HasBits == <<>>
FileDescriptorSet_New == <<>>
FileDescriptorSet_Clear == <<Always({"file"}), Unknown>>
FileDescriptorSet_Parse == {Reads(1, "file", "FileDescriptorProto")}
FileDescriptorSet_SerializeWithCachedSizes == <<<<1, "file">>>>
FileDescriptorSet_SerializeWithCachedSizesToArray == <<<<1, "file">>>>
FileDescriptorSet_ByteSize == <<Always([file |-> 1]), Unknown>>
FileDescriptorSet_MergeFrom == <<Always({"file"}), Unknown>>
FileDescriptorSet_IsInitialized ==
    [required |-> {},
     visits |-> {"file"}]
FileDescriptorSet_Swap == {"file"}
FileDescriptorSet_offsets == <<"file">>
FileDescriptorSet == Class(
    FileDescriptorSet_Fields, FileDescriptorSet_HasBits,
    FileDescriptorSet_New, FileDescriptorSet_Clear,
    FileDescriptorSet_Parse, FileDescriptorSet_SerializeWithCachedSizes,
    FileDescriptorSet_SerializeWithCachedSizesToArray,
    FileDescriptorSet_ByteSize, FileDescriptorSet_MergeFrom,
    FileDescriptorSet_IsInitialized, FileDescriptorSet_Swap,
    FileDescriptorSet_offsets, 0)

-----------------------------------------------------------------------------
FileDescriptorProto_Fields == [
    name |-> Optional(1, "string"), package |-> Optional(2, "string"),
    dependency |-> Repeated(3, "string"),
    public_dependency |-> Repeated(10, "int32"),
    weak_dependency |-> Repeated(11, "int32"),
    message_type |-> Repeated(4, "DescriptorProto"),
    enum_type |-> Repeated(5, "EnumDescriptorProto"),
    service |-> Repeated(6, "ServiceDescriptorProto"),
    extension |-> Repeated(7, "FieldDescriptorProto"),
    options |-> Optional(8, "FileOptions"),
    source_code_info |-> Optional(9, "SourceCodeInfo")]
FileDescriptorProto_HasBits == [
    name |-> 0, package |-> 1, options |-> 9, source_code_info |-> 10]
FileDescriptorProto_New == [
    name |-> <<>>, package |-> <<>>, options |-> <<>>,
    source_code_info |-> <<>>]
FileDescriptorProto_Clear == <<
    At(0, [name |-> <<>>, package |-> <<>>]),
    At(9, [options |-> <<>>, source_code_info |-> <<>>]),
    Always({"dependency", "public_dependency", "weak_dependency", "message_type",
        "enum_type", "service", "extension"}),
    Unknown>>
FileDescriptorProto_Parse == {
    Reads(1, "name", "string"), Reads(2, "package", "string"),
    Reads(3, "dependency", "string"),
    Reads(4, "message_type", "DescriptorProto"),
    Reads(5, "enum_type", "EnumDescriptorProto"),
    Reads(6, "service", "ServiceDescriptorProto"),
    Reads(7, "extension", "FieldDescriptorProto"),
    Reads(8, "options", "FileOptions"),
    Reads(9, "source_code_info", "SourceCodeInfo"),
    Either(10, "public_dependency", "int32"),
    Either(11, "weak_dependency", "int32")}
FileDescriptorProto_SerializeWithCachedSizes == <<
    <<1, "name">>, <<2, "package">>, <<3, "dependency">>,
    <<4, "message_type">>, <<5, "enum_type">>, <<6, "service">>,
    <<7, "extension">>, <<8, "options">>, <<9, "source_code_info">>,
    <<10, "public_dependency">>, <<11, "weak_dependency">>>>
FileDescriptorProto_SerializeWithCachedSizesToArray == <<
    <<1, "name">>, <<2, "package">>, <<3, "dependency">>,
    <<4, "message_type">>, <<5, "enum_type">>, <<6, "service">>,
    <<7, "extension">>, <<8, "options">>, <<9, "source_code_info">>,
    <<10, "public_dependency">>, <<11, "weak_dependency">>>>
FileDescriptorProto_ByteSize == <<
    At(0, [name |-> 1, package |-> 1]),
    At(9, [options |-> 1, source_code_info |-> 1]),
    Always([dependency |-> 1, public_dependency |-> 1, weak_dependency |-> 1,
        message_type |-> 1, enum_type |-> 1, service |-> 1, extension |-> 1]),
    Unknown>>
FileDescriptorProto_MergeFrom == <<
    Always({"dependency", "public_dependency", "weak_dependency", "message_type",
        "enum_type", "service", "extension"}),
    At(0, {"name", "package"}), At(9, {"options", "source_code_info"}),
    Unknown>>
FileDescriptorProto_IsInitialized ==
    [required |-> {},
     visits |-> {"message_type", "enum_type", "service", "extension", "options"}]
FileDescriptorProto_Swap == {
    "name", "package", "options", "source_code_info", "dependency",
    "public_dependency", "weak_dependency", "message_type", "enum_type",
    "service", "extension"}
FileDescriptorProto_offsets == <<
    "name", "package", "dependency", "public_dependency",
    "weak_dependency", "message_type", "enum_type", "service", "extension",
    "options", "source_code_info">>
FileDescriptorProto == Class(
    FileDescriptorProto_Fields, FileDescriptorProto_HasBits,
    FileDescriptorProto_New, FileDescriptorProto_Clear,
    FileDescriptorProto_Parse,
    FileDescriptorProto_SerializeWithCachedSizes,
    FileDescriptorProto_SerializeWithCachedSizesToArray,
    FileDescriptorProto_ByteSize, FileDescriptorProto_MergeFrom,
    FileDescriptorProto_IsInitialized, FileDescriptorProto_Swap,
    FileDescriptorProto_offsets, 0)

-----------------------------------------------------------------------------
DescriptorProto_ExtensionRange_Fields == [
    start |-> Optional(1, "int32"), end |-> Optional(2, "int32")]
DescriptorProto_ExtensionRange_HasBits == [start |-> 0, end |-> 1]
DescriptorProto_ExtensionRange_New == [start |-> 0, end |-> 0]
DescriptorProto_ExtensionRange_Clear == <<
    At(0, [start |-> 0, end |-> 0]), Unknown>>
DescriptorProto_ExtensionRange_Parse == {
    Reads(1, "start", "int32"), Reads(2, "end", "int32")}
DescriptorProto_ExtensionRange_SerializeWithCachedSizes == <<
    <<1, "start">>, <<2, "end">>>>
DescriptorProto_ExtensionRange_SerializeWithCachedSizesToArray == <<
    <<1, "start">>, <<2, "end">>>>
DescriptorProto_ExtensionRange_ByteSize == <<
    At(0, [start |-> 1, end |-> 1]), Unknown>>
DescriptorProto_ExtensionRange_MergeFrom == <<
    At(0, {"start", "end"}), Unknown>>
DescriptorProto_ExtensionRange_IsInitialized ==
    [required |-> {},
     visits |-> {}]
DescriptorProto_ExtensionRange_Swap == {"start", "end"}
DescriptorProto_ExtensionRange_offsets == <<"start", "end">>
DescriptorProto_ExtensionRange == Class(
    DescriptorProto_ExtensionRange_Fields,
    DescriptorProto_ExtensionRange_HasBits,
    DescriptorProto_ExtensionRange_New,
    DescriptorProto_ExtensionRange_Clear,
    DescriptorProto_ExtensionRange_Parse,
    DescriptorProto_ExtensionRange_SerializeWithCachedSizes,
    DescriptorProto_ExtensionRange_SerializeWithCachedSizesToArray,
    DescriptorProto_ExtensionRange_ByteSize,
    DescriptorProto_ExtensionRange_MergeFrom,
    DescriptorProto_ExtensionRange_IsInitialized,
    DescriptorProto_ExtensionRange_Swap,
    DescriptorProto_ExtensionRange_offsets, 0)

-----------------------------------------------------------------------------
DescriptorProto_Fields == [
    name |-> Optional(1, "string"),
    field |-> Repeated(2, "FieldDescriptorProto"),
    extension |-> Repeated(6, "FieldDescriptorProto"),
    nested_type |-> Repeated(3, "DescriptorProto"),
    enum_type |-> Repeated(4, "EnumDescriptorProto"),
    extension_range |-> Repeated(5, "DescriptorProto_ExtensionRange"),
    options |-> Optional(7, "MessageOptions")]
DescriptorProto_HasBits == [name |-> 0, options |-> 6]
DescriptorProto_New == [name |-> <<>>, options |-> <<>>]
DescriptorProto_Clear == <<
    At(0, [name |-> <<>>, options |-> <<>>]),
    Always({"field", "extension", "nested_type", "enum_type", "extension_range"}),
    Unknown>>
DescriptorProto_Parse == {
    Reads(1, "name", "string"), Reads(2, "field", "FieldDescriptorProto"),
    Reads(3, "nested_type", "DescriptorProto"),
    Reads(4, "enum_type", "EnumDescriptorProto"),
    Reads(5, "extension_range", "DescriptorProto_ExtensionRange"),
    Reads(6, "extension", "FieldDescriptorProto"),
    Reads(7, "options", "MessageOptions")}
DescriptorProto_SerializeWithCachedSizes == <<
    <<1, "name">>, <<2, "field">>, <<3, "nested_type">>,
    <<4, "enum_type">>, <<5, "extension_range">>, <<6, "extension">>,
    <<7, "options">>>>
DescriptorProto_SerializeWithCachedSizesToArray == <<
    <<1, "name">>, <<2, "field">>, <<3, "nested_type">>,
    <<4, "enum_type">>, <<5, "extension_range">>, <<6, "extension">>,
    <<7, "options">>>>
DescriptorProto_ByteSize == <<
    At(0, [name |-> 1, options |-> 1]),
    Always([field |-> 1, extension |-> 1, nested_type |-> 1, enum_type |-> 1,
        extension_range |-> 1]),
    Unknown>>
DescriptorProto_MergeFrom == <<
    Always({"field", "extension", "nested_type", "enum_type", "extension_range"}),
    At(0, {"name", "options"}), Unknown>>
DescriptorProto_IsInitialized ==
    [required |-> {},
     visits |-> {"field", "extension", "nested_type", "enum_type", "options"}]
DescriptorProto_Swap == {
    "name", "options", "field", "extension", "nested_type", "enum_type",
    "extension_range"}
DescriptorProto_offsets == <<
    "name", "field", "extension", "nested_type", "enum_type",
    "extension_range", "options">>
DescriptorProto == Class(
    DescriptorProto_Fields, DescriptorProto_HasBits, DescriptorProto_New,
    DescriptorProto_Clear, DescriptorProto_Parse,
    DescriptorProto_SerializeWithCachedSizes,
    DescriptorProto_SerializeWithCachedSizesToArray,
    DescriptorProto_ByteSize, DescriptorProto_MergeFrom,
    DescriptorProto_IsInitialized, DescriptorProto_Swap,
    DescriptorProto_offsets, 0)

-----------------------------------------------------------------------------
FieldDescriptorProto_Fields == [
    name |-> Optional(1, "string"), number |-> Optional(3, "int32"),
    label |-> Optional(4, "FieldDescriptorProto_Label"),
    type |-> Optional(5, "FieldDescriptorProto_Type"),
    type_name |-> Optional(6, "string"),
    extendee |-> Optional(2, "string"),
    default_value |-> Optional(7, "string"),
    options |-> Optional(8, "FieldOptions")]
FieldDescriptorProto_HasBits == [
    name |-> 0, number |-> 1, label |-> 2, type |-> 3, type_name |-> 4,
    extendee |-> 5, default_value |-> 6, options |-> 7]
FieldDescriptorProto_New == [
    name |-> <<>>, number |-> 0, label |-> 1, type |-> 1,
    type_name |-> <<>>, extendee |-> <<>>, default_value |-> <<>>,
    options |-> <<>>]
FieldDescriptorProto_Clear == <<
    At(0, [name |-> <<>>, number |-> 0, label |-> 1, type |-> 1, type_name |-> <<>>,
        extendee |-> <<>>, default_value |-> <<>>, options |-> <<>>]),
    Unknown>>
FieldDescriptorProto_Parse == {
    Reads(1, "name", "string"), Reads(2, "extendee", "string"),
    Reads(3, "number", "int32"),
    Reads(4, "label", "FieldDescriptorProto_Label"),
    Reads(5, "type", "FieldDescriptorProto_Type"),
    Reads(6, "type_name", "string"), Reads(7, "default_value", "string"),
    Reads(8, "options", "FieldOptions")}
FieldDescriptorProto_SerializeWithCachedSizes == <<
    <<1, "name">>, <<2, "extendee">>, <<3, "number">>, <<4, "label">>,
    <<5, "type">>, <<6, "type_name">>, <<7, "default_value">>,
    <<8, "options">>>>
FieldDescriptorProto_SerializeWithCachedSizesToArray == <<
    <<1, "name">>, <<2, "extendee">>, <<3, "number">>, <<4, "label">>,
    <<5, "type">>, <<6, "type_name">>, <<7, "default_value">>,
    <<8, "options">>>>
FieldDescriptorProto_ByteSize == <<
    At(0, [name |-> 1, number |-> 1, label |-> 1, type |-> 1, type_name |-> 1,
        extendee |-> 1, default_value |-> 1, options |-> 1]),
    Unknown>>
FieldDescriptorProto_MergeFrom == <<
    At(0, {"name", "number", "label", "type", "type_name", "extendee", "default_value",
        "options"}),
    Unknown>>
FieldDescriptorProto_IsInitialized ==
    [required |-> {},
     visits |-> {"options"}]
FieldDescriptorProto_Swap == {
    "name", "number", "label", "type", "type_name", "extendee",
    "default_value", "options"}
FieldDescriptorProto_offsets == <<
    "name", "number", "label", "type", "type_name", "extendee",
    "default_value", "options">>
FieldDescriptorProto == Class(
    FieldDescriptorProto_Fields, FieldDescriptorProto_HasBits,
    FieldDescriptorProto_New, FieldDescriptorProto_Clear,
    FieldDescriptorProto_Parse,
    FieldDescriptorProto_SerializeWithCachedSizes,
    FieldDescriptorProto_SerializeWithCachedSizesToArray,
    FieldDescriptorProto_ByteSize, FieldDescriptorProto_MergeFrom,
    FieldDescriptorProto_IsInitialized, FieldDescriptorProto_Swap,
    FieldDescriptorProto_offsets, 0)

-----------------------------------------------------------------------------
EnumDescriptorProto_Fields == [
    name |-> Optional(1, "string"),
    value |-> Repeated(2, "EnumValueDescriptorProto"),
    options |-> Optional(3, "EnumOptions")]
EnumDescriptorProto_HasBits == [name |-> 0, options |-> 2]
EnumDescriptorProto_New == [name |-> <<>>, options |-> <<>>]
EnumDescriptorProto_Clear == <<
    At(0, [name |-> <<>>, options |-> <<>>]), Always({"value"}), Unknown>>
EnumDescriptorProto_Parse == {
    Reads(1, "name", "string"),
    Reads(2, "value", "EnumValueDescriptorProto"),
    Reads(3, "options", "EnumOptions")}
EnumDescriptorProto_SerializeWithCachedSizes == <<
    <<1, "name">>, <<2, "value">>, <<3, "options">>>>
(* Slip: the options before the values. *)
EnumDescriptorProto_WritesOptionsFirst == <<<<1, "name">>, <<3, "options">>, <<2, "value">>>>

EnumDescriptorProto_SerializeWithCachedSizesToArray == <<
    <<1, "name">>, <<2, "value">>, <<3, "options">>>>
EnumDescriptorProto_ByteSize == <<
    At(0, [name |-> 1, options |-> 1]), Always([value |-> 1]), Unknown>>
EnumDescriptorProto_MergeFrom == <<
    Always({"value"}), At(0, {"name", "options"}), Unknown>>
EnumDescriptorProto_IsInitialized ==
    [required |-> {},
     visits |-> {"value", "options"}]
EnumDescriptorProto_Swap == {"name", "options", "value"}
EnumDescriptorProto_offsets == <<"name", "value", "options">>
EnumDescriptorProto == Class(
    EnumDescriptorProto_Fields, EnumDescriptorProto_HasBits,
    EnumDescriptorProto_New, EnumDescriptorProto_Clear,
    EnumDescriptorProto_Parse,
    EnumDescriptorProto_SerializeWithCachedSizes,
    EnumDescriptorProto_SerializeWithCachedSizesToArray,
    EnumDescriptorProto_ByteSize, EnumDescriptorProto_MergeFrom,
    EnumDescriptorProto_IsInitialized, EnumDescriptorProto_Swap,
    EnumDescriptorProto_offsets, 0)

-----------------------------------------------------------------------------
EnumValueDescriptorProto_Fields == [
    name |-> Optional(1, "string"), number |-> Optional(2, "int32"),
    options |-> Optional(3, "EnumValueOptions")]
EnumValueDescriptorProto_HasBits == [
    name |-> 0, number |-> 1, options |-> 2]
EnumValueDescriptorProto_New == [
    name |-> <<>>, number |-> 0, options |-> <<>>]
EnumValueDescriptorProto_Clear == <<
    At(0, [name |-> <<>>, number |-> 0, options |-> <<>>]), Unknown>>
EnumValueDescriptorProto_Parse == {
    Reads(1, "name", "string"), Reads(2, "number", "int32"),
    Reads(3, "options", "EnumValueOptions")}
EnumValueDescriptorProto_SerializeWithCachedSizes == <<
    <<1, "name">>, <<2, "number">>, <<3, "options">>>>
EnumValueDescriptorProto_SerializeWithCachedSizesToArray == <<
    <<1, "name">>, <<2, "number">>, <<3, "options">>>>
EnumValueDescriptorProto_ByteSize == <<
    At(0, [name |-> 1, number |-> 1, options |-> 1]), Unknown>>
EnumValueDescriptorProto_MergeFrom == <<
    At(0, {"name", "number", "options"}), Unknown>>
EnumValueDescriptorProto_IsInitialized ==
    [required |-> {},
     visits |-> {"options"}]
EnumValueDescriptorProto_Swap == {"name", "number", "options"}

EnumValueDescriptorProto_offsets == <<"name", "number", "options">>
EnumValueDescriptorProto == Class(
    EnumValueDescriptorProto_Fields, EnumValueDescriptorProto_HasBits,
    EnumValueDescriptorProto_New, EnumValueDescriptorProto_Clear,
    EnumValueDescriptorProto_Parse,
    EnumValueDescriptorProto_SerializeWithCachedSizes,
    EnumValueDescriptorProto_SerializeWithCachedSizesToArray,
    EnumValueDescriptorProto_ByteSize, EnumValueDescriptorProto_MergeFrom,
    EnumValueDescriptorProto_IsInitialized, EnumValueDescriptorProto_Swap,
    EnumValueDescriptorProto_offsets, 0)

-----------------------------------------------------------------------------
ServiceDescriptorProto_Fields == [
    name |-> Optional(1, "string"),
    method |-> Repeated(2, "MethodDescriptorProto"),
    options |-> Optional(3, "ServiceOptions")]
ServiceDescriptorProto_HasBits == [name |-> 0, options |-> 2]
ServiceDescriptorProto_New == [name |-> <<>>, options |-> <<>>]
ServiceDescriptorProto_Clear == <<
    At(0, [name |-> <<>>, options |-> <<>>]), Always({"method"}), Unknown>>
ServiceDescriptorProto_Parse == {
    Reads(1, "name", "string"),
    Reads(2, "method", "MethodDescriptorProto"),
    Reads(3, "options", "ServiceOptions")}
ServiceDescriptorProto_SerializeWithCachedSizes == <<
    <<1, "name">>, <<2, "method">>, <<3, "options">>>>
ServiceDescriptorProto_SerializeWithCachedSizesToArray == <<
    <<1, "name">>, <<2, "method">>, <<3, "options">>>>
ServiceDescriptorProto_ByteSize == <<
    At(0, [name |-> 1, options |-> 1]), Always([method |-> 1]), Unknown>>
ServiceDescriptorProto_MergeFrom == <<
    Always({"method"}), At(0, {"name", "options"}), Unknown>>
ServiceDescriptorProto_IsInitialized ==
    [required |-> {},
     visits |-> {"method", "options"}]
ServiceDescriptorProto_Swap == {"name", "options", "method"}
ServiceDescriptorProto_offsets == <<"name", "method", "options">>
ServiceDescriptorProto == Class(
    ServiceDescriptorProto_Fields, ServiceDescriptorProto_HasBits,
    ServiceDescriptorProto_New, ServiceDescriptorProto_Clear,
    ServiceDescriptorProto_Parse,
    ServiceDescriptorProto_SerializeWithCachedSizes,
    ServiceDescriptorProto_SerializeWithCachedSizesToArray,
    ServiceDescriptorProto_ByteSize, ServiceDescriptorProto_MergeFrom,
    ServiceDescriptorProto_IsInitialized, ServiceDescriptorProto_Swap,
    ServiceDescriptorProto_offsets, 0)

-----------------------------------------------------------------------------
MethodDescriptorProto_Fields == [
    name |-> Optional(1, "string"), input_type |-> Optional(2, "string"),
    output_type |-> Optional(3, "string"),
    options |-> Optional(4, "MethodOptions")]
MethodDescriptorProto_HasBits == [
    name |-> 0, input_type |-> 1, output_type |-> 2, options |-> 3]
MethodDescriptorProto_New == [
    name |-> <<>>, input_type |-> <<>>, output_type |-> <<>>,
    options |-> <<>>]
MethodDescriptorProto_Clear == <<
    At(0, [name |-> <<>>, input_type |-> <<>>, output_type |-> <<>>, options |-> <<>>]),
    Unknown>>
MethodDescriptorProto_Parse == {
    Reads(1, "name", "string"), Reads(2, "input_type", "string"),
    Reads(3, "output_type", "string"),
    Reads(4, "options", "MethodOptions")}
MethodDescriptorProto_SerializeWithCachedSizes == <<
    <<1, "name">>, <<2, "input_type">>, <<3, "output_type">>,
    <<4, "options">>>>
MethodDescriptorProto_SerializeWithCachedSizesToArray == <<
    <<1, "name">>, <<2, "input_type">>, <<3, "output_type">>,
    <<4, "options">>>>
MethodDescriptorProto_ByteSize == <<
    At(0, [name |-> 1, input_type |-> 1, output_type |-> 1, options |-> 1]),
    Unknown>>
MethodDescriptorProto_MergeFrom == <<
    At(0, {"name", "input_type", "output_type", "options"}), Unknown>>
MethodDescriptorProto_IsInitialized ==
    [required |-> {},
     visits |-> {"options"}]
MethodDescriptorProto_Swap == {
    "name", "input_type", "output_type", "options"}
MethodDescriptorProto_offsets == <<
    "name", "input_type", "output_type", "options">>
MethodDescriptorProto == Class(
    MethodDescriptorProto_Fields, MethodDescriptorProto_HasBits,
    MethodDescriptorProto_New, MethodDescriptorProto_Clear,
    MethodDescriptorProto_Parse,
    MethodDescriptorProto_SerializeWithCachedSizes,
    MethodDescriptorProto_SerializeWithCachedSizesToArray,
    MethodDescriptorProto_ByteSize, MethodDescriptorProto_MergeFrom,
    MethodDescriptorProto_IsInitialized, MethodDescriptorProto_Swap,
    MethodDescriptorProto_offsets, 0)
=============================================================================
