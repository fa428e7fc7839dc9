---------------------------- MODULE StoredObjects ----------------------------
(***************************************************************************)
(* What redis holds of an object, and what comes back of it.               *)
(*                                                                         *)
(* With redis, an object is stored as text that its asJSON method writes,  *)
(* and is made again from that text: the name before the first colon       *)
(* chooses a Reconstitute method of InMemClient, the values of the fields, *)
(* in their order, are its arguments.  With -inmem it is the object itself *)
(* that is kept.  The specification keeps both, `memory' and `stored', and *)
(* asks whether a request reads the same object in both modes.             *)
(*                                                                         *)
(* A text is a sequence of tokens: the marks of parseJSON_findNextToken,   *)
(* and words.  What stands between two quotes is one word, or none.  The   *)
(* parser (DBjson.go) is given function by function: each one takes a text *)
(* and the position of its next token, and returns a value and the         *)
(* position behind it.                                                     *)
(***************************************************************************)
EXTENDS Integers, SequencesExt

CONSTANTS
    Types,          \* the types of objects under test
    Words,          \* what strings may be set to, "" among them
    Bytes,          \* the bytes of a hash
    Date,           \* a time in RFC 3339 format
    MaxLen,         \* bound: elements of a list
    MaxChanges      \* bound: changes of the object

\* The double quote.  The provers have no string with a double quote in it.
Quote == "''"

(***************************************************************************)
(* Values, as package reflect sees them.                                   *)
(***************************************************************************)

String == <<"string">>
Int_ == <<"int">>
Byte == <<"byte">>
Bool == <<"bool">>
Time == <<"time">>
ListOf(type) == <<"list">> \o type
Interface == <<"interface">>

Value(type, content) == [type |-> type, content |-> content]
Nothing == Value(<<"invalid">>, <<>>)   \* a zero reflect.Value
Failure == Value(<<"error">>, <<>>)     \* a syntax or token error
IsValid(value) == value.type \notin {Nothing.type, Failure.type}
IsError(value) == value.type = Failure.type

\* A value and the position of the token behind it.
At(value, pos) == [value |-> value, pos |-> pos]

(***************************************************************************)
(* Package rest, which is not part of the repository: double quotes in the *)
(* output of docker and in dockerfiles are escaped and restored.           *)
(***************************************************************************)

Escaped == "escaped "

EncodeStringForJSON(string) == IF string = "" THEN "" ELSE Escaped \o string

DecodeStringFromJSON(string) ==
    IF Len(string) > Len(Escaped) /\ SubSeq(string, 1, Len(Escaped)) = Escaped
        THEN SubSeq(string, Len(Escaped) + 1, Len(string))
        ELSE string

(***************************************************************************)
(* Writing.                                                                *)
(***************************************************************************)

Quoted(string) == IF string = "" THEN <<Quote, Quote>> ELSE <<Quote, string, Quote>>

Field(name, text) == Quoted(name) \o <<":">> \o text

StringField(name, object) == Field(name, Quoted(object[name]))

\* The texts, with commas between them.
Joined(texts) ==
    LET joined[n \in Nat] == IF n = 0 THEN <<>>
                             ELSE IF n = 1 THEN texts[1]
                             ELSE joined[n - 1] \o <<",">> \o texts[n]
    IN joined[Len(texts)]

Array(texts) == <<"[">> \o Joined(texts) \o <<"]">>

ListField(name, object) ==
    Field(name, Array([i \in DOMAIN object[name] |-> Quoted(object[name][i])]))

Braces(fields) == <<"{">> \o Joined(fields) \o <<"}">>

Named(type, fields) == Field(type, Braces(fields))

FormatTimeAsJavascriptDate(date) == Quoted(date)

BoolToString(bool) == <<IF bool THEN "true" ELSE "false">>

ByteArrayAsJSON(bytes) == Array([i \in DOMAIN bytes |-> <<ToString(bytes[i])>>])

TimeField(name, object) ==
    Field(name, <<"time">> \o FormatTimeAsJavascriptDate(object[name]))

StringFields(names, object) == [i \in DOMAIN names |-> StringField(names[i], object)]

ListFields(names, object) == [i \in DOMAIN names |-> ListField(names[i], object)]

BoolField(name, object) == Field(name, BoolToString(object[name]))

(***************************************************************************)
(* Writing: the asJSON methods, and the methods that they share, which     *)
(* return some of the fields.                                              *)
(***************************************************************************)

persistObjFieldsAsJSON(object) == StringFields(<<"Id">>, object)

IdentityValidationInfo_asJSON(object) ==
    Named("IdentityValidationInfo",
        persistObjFieldsAsJSON(object)
        \o <<StringField("UserId", object), TimeField("CreationTime", object)>>)

aclFieldsAsJSON(object) ==
    persistObjFieldsAsJSON(object) \o <<ListField("ACLEntryIds", object)>>

resourceFieldsAsJSON(object) ==
    aclFieldsAsJSON(object) \o StringFields(<<"Name", "Description", "ParentId">>, object)
        \o <<TimeField("CreationTime", object)>>

partyFieldsAsJSON(object) ==
    persistObjFieldsAsJSON(object)
    \o <<BoolField("IsActive", object), StringField("Name", object),
         TimeField("CreationTime", object), StringField("RealmId", object),
         ListField("ACLEntryIds", object)>>

Group_asJSON(object) ==
    Named("Group",
        partyFieldsAsJSON(object)
        \o <<StringField("Description", object), ListField("UserObjIds", object)>>)

User_asJSON(object) ==
    Named("User",
        partyFieldsAsJSON(object)
        \o StringFields(<<"UserId", "DefaultRepoId", "EmailAddress">>, object)
        \o <<BoolField("EmailIsVerified", object),
             Field("PasswordHash", ByteArrayAsJSON(object["PasswordHash"]))>>
        \o ListFields(<<"GroupIds", "MostRecentLoginAttempts", "EventIds">>, object))

ACLEntry_asJSON(object) ==
    LET mask == object["PermissionMask"]
    IN Named("ACLEntry",
           persistObjFieldsAsJSON(object) \o StringFields(<<"ResourceId", "PartyId">>, object)
           \o <<Field("PermissionMask",
                      Array([i \in DOMAIN mask |-> BoolToString(mask[i])]))>>)

Realm_asJSON(object) ==
    Named("Realm",
        resourceFieldsAsJSON(object)
        \o StringFields(<<"AdminUserId", "OrgFullName">>, object)
        \o ListFields(<<"UserObjIds", "GroupIds", "RepoIds">>, object)
        \o StringFields(<<"FileDirectory">>, object))

\* The dockerfiles are written as DockerFieldIds; names are not read.
Repo_asJSON(object) ==
    Named("Repo",
        resourceFieldsAsJSON(object)
        \o ListFields(<<"DefaultUserIds", "DockerfileIds", "DockerImageIds", "ScanConfigIds",
                        "FlagIds">>, object)
        \o StringFields(<<"FileDirectory">>, object))

Dockerfile_asJSON(object) ==
    Named("Dockerfile",
        resourceFieldsAsJSON(object)
        \o <<StringField("FilePath", object), ListField("DockerfileExecEventIds", object)>>)

imageFieldsAsJSON(object) ==
    resourceFieldsAsJSON(object) \o <<ListField("VersionIds", object)>>

DockerImage_asJSON(object) ==
    Named("DockerImage",
        imageFieldsAsJSON(object) \o <<ListField("ScanConfigsToUse", object)>>)

\* The date is not preceded by the word time.
imageVersionFieldsAsJSON(object) ==
    persistObjFieldsAsJSON(object)
    \o StringFields(<<"Version", "ImageObjId", "ImageCreationEventId">>, object)
    \o <<Field("CreationDate", FormatTimeAsJavascriptDate(object["CreationDate"]))>>

\* No type name, a field without a name, and ids without quotes.
DockerImageVersion_asJSON(object) ==
    LET ids == object["ScanEventIds"]
    IN Braces(
           imageVersionFieldsAsJSON(object)
           \o <<Quoted(object["ImageCreationEventId"]),
                Field("ScanEventIds", Array([i \in DOMAIN ids |-> <<ids[i]>>])),
                Field("Digest", ByteArrayAsJSON(object["Digest"])),
                Field("Signature", ByteArrayAsJSON(object["Signature"])),
                Field("DockerBuildOutput",
                      Quoted(EncodeStringForJSON(object["DockerBuildOutput"])))>>)

\* The brace is not closed, and no comma follows the id.
parameterValueFieldsAsJSON(object) ==
    <<<<"{">> \o StringField("Id", object) \o StringField("Name", object),
      StringField("StringValue", object)>>

ScanConfig_asJSON(object) ==
    Named("ScanConfig",
        resourceFieldsAsJSON(object)
        \o StringFields(<<"SuccessExpression", "ProviderName">>, object)
        \o <<ListField("ParameterValueIds", object), StringField("FlagId", object)>>
        \o ListFields(<<"ScanEventIds", "DockerImageIdsThatUse">>, object))

scanParameterValueFieldsAsJSON(object) ==
    Braces(parameterValueFieldsAsJSON(object) \o <<StringField("ConfigId", object)>>)

ScanParameterValue_asJSON(object) == Braces(<<scanParameterValueFieldsAsJSON(object)>>)

Flag_asJSON(object) ==
    Named("Flag",
        resourceFieldsAsJSON(object)
        \o <<StringField("SuccessImagePath", object),
             ListField("UsedByScanConfigIds", object)>>)

\* Mutant: the time is quoted once.
eventFieldsAsJSON_QuotedOnce(object) ==
    persistObjFieldsAsJSON(object)
    \o <<TimeField("When", object), StringField("UserObjId", object)>>

\* The time is put in quotes again.
eventFieldsAsJSON(object) ==
    persistObjFieldsAsJSON(object)
    \o <<Field("When", <<"time", Quote>> \o FormatTimeAsJavascriptDate(object["When"])
                         \o <<Quote>>),
         StringField("UserObjId", object)>>

ScanEvent_asJSON(object) ==
    LET vulnerabilities == object["Result"]
        AllQuoted(list) == Array([i \in DOMAIN list |-> Quoted(list[i])])
    IN Named("ScanEvent",
           eventFieldsAsJSON(object)
           \o StringFields(<<"ScanConfigId", "DockerImageVersionId", "ProviderName">>, object)
           \o <<ListField("ActualParameterValueIds", object), StringField("Score", object),
                Field("Result", Array([i \in DOMAIN vulnerabilities |->
                                           AllQuoted(vulnerabilities[i])]))>>)

imageCreationEventFieldsAsJSON(object) ==
    eventFieldsAsJSON(object) \o <<StringField("ImageVersionId", object)>>

DockerfileExecEvent_asJSON(object) ==
    Named("DockerfileExecEvent",
        imageCreationEventFieldsAsJSON(object)
        \o <<StringField("DockerfileId", object),
             Field("DockerfileContent",
                   Quoted(EncodeStringForJSON(object["DockerfileContent"])))>>)

dockerfileExecParameterValueFieldsAsJSON(object) == parameterValueFieldsAsJSON(object)

DockerfileExecParameterValue_asJSON(object) ==
    Braces(dockerfileExecParameterValueFieldsAsJSON(object)
           \o <<StringField("DockerfileId", object)>>)

asJSON(type, object) ==
    CASE type = "IdentityValidationInfo" -> IdentityValidationInfo_asJSON(object)
      [] type = "Group" -> Group_asJSON(object)
      [] type = "User" -> User_asJSON(object)
      [] type = "ACLEntry" -> ACLEntry_asJSON(object)
      [] type = "Realm" -> Realm_asJSON(object)
      [] type = "Repo" -> Repo_asJSON(object)
      [] type = "Dockerfile" -> Dockerfile_asJSON(object)
      [] type = "DockerImage" -> DockerImage_asJSON(object)
      [] type = "DockerImageVersion" -> DockerImageVersion_asJSON(object)
      [] type = "ScanConfig" -> ScanConfig_asJSON(object)
      [] type = "ScanParameterValue" -> ScanParameterValue_asJSON(object)
      [] type = "Flag" -> Flag_asJSON(object)
      [] type = "ScanEvent" -> ScanEvent_asJSON(object)
      [] type = "DockerfileExecEvent" -> DockerfileExecEvent_asJSON(object)
      [] type = "DockerfileExecParameterValue" -> DockerfileExecParameterValue_asJSON(object)

(***************************************************************************)
(* Reading: the parser.                                                    *)
(***************************************************************************)

\* The token at a position, "" at the end of the text.
findNextToken(text, pos) == IF pos > Len(text) THEN "" ELSE text[pos]

\* The position of the first such token from a position on, 0 if there is none.
PositionOf(token, text, pos) ==
    LET found == {p \in pos .. Len(text) : text[p] = token}
    IN IF found = {} THEN 0 ELSE CHOOSE p \in found : \A q \in found : p <= q

\* The text between two quotes, which is a word or nothing.
Between(text, open, close) == IF close = open + 1 THEN "" ELSE text[open + 1]

\* The type name and the position behind its colon; -1 is an error.
retrieveTypeName(text) ==
    LET open  == PositionOf(Quote, text, 1)
        close == PositionOf(Quote, text, open + 1)
        colon == PositionOf(":", text, close)
    IN IF close = 0 \/ colon = 0 THEN [typeName |-> "", pos |-> -1]
       ELSE [typeName |-> Between(text, open, close), pos |-> colon + 1]

parseJSON_number(text, pos) ==
    LET numbers == {b \in Bytes : ToString(b) = findNextToken(text, pos)}
    IN IF numbers = {} THEN At(Nothing, pos)
       ELSE At(Value(Int_, CHOOSE b \in numbers : TRUE), pos + 1)

parseJSON_string_value(text, pos) ==
    LET close == PositionOf(Quote, text, pos + 1)
    IN IF findNextToken(text, pos) # Quote THEN At(Nothing, pos)
       ELSE IF close = 0 THEN At(Failure, pos)
       ELSE At(Value(String, DecodeStringFromJSON(Between(text, pos, close))),
               close + 1)

parseJSON_bool_value(text, pos) ==
    CASE findNextToken(text, pos) = "true"  -> At(Value(Bool, TRUE), pos + 1)
      [] findNextToken(text, pos) = "false" -> At(Value(Bool, FALSE), pos + 1)
      [] OTHER -> At(Nothing, pos)

parseJSON_time_value(text, pos) ==
    LET open  == PositionOf(Quote, text, pos + 1)
        close == PositionOf(Quote, text, open + 1)
    IN IF findNextToken(text, pos) # "time" THEN At(Nothing, pos)
       ELSE IF open = 0 \/ close = 0 \/ Between(text, open, close) # Date
           THEN At(Failure, pos)
       ELSE At(Value(Time, Date), close + 1)

\* The first of the four kinds that is found, or a syntax error.
parseJSON_simple_value(text, pos) ==
    LET tries == <<parseJSON_number(text, pos), parseJSON_string_value(text, pos),
                   parseJSON_bool_value(text, pos), parseJSON_time_value(text, pos)>>
        hits == {i \in 1 .. 4 : tries[i].value.type # Nothing.type}
    IN IF hits = {} THEN At(Failure, pos)
       ELSE tries[CHOOSE i \in hits : \A j \in hits : i <= j]

(***************************************************************************)
(* The functions for lists and for fields call themselves and each other.  *)
(* Here each of them is given what the calls that it makes return, as      *)
(* `calls': functions of the position, one for each of the functions that  *)
(* are called.                                                             *)
(***************************************************************************)

\* An empty list has elements of type interface{}, any other one has those of
\* the type of its first element.  Appending one of another type panics; no
\* asJSON method writes such a list.
parseJSON_array_value(calls, text, pos) ==
    LET first == calls.value[pos + 1]
        rest  == calls.comma_value[first.pos]
    IN IF findNextToken(text, pos + 1) = "]"
           THEN At(Value(ListOf(Interface), <<>>), pos + 2)
       ELSE IF ~IsValid(first.value) THEN first
       ELSE IF IsError(rest.value) \/ findNextToken(text, rest.pos) # "]"
           THEN At(Failure, pos)
       ELSE At(Value(ListOf(first.value.type), <<first.value.content>> \o rest.value.content),
               rest.pos + 1)

parseJSON_value(calls, text, pos) ==
    CASE findNextToken(text, pos) = ""  -> At(Nothing, pos)
      [] findNextToken(text, pos) = "[" -> parseJSON_array_value(calls, text, pos)
      [] OTHER -> parseJSON_simple_value(text, pos)

\* The elements of a list behind its first one.
parseJSON_comma_value(calls, text, pos) ==
    LET first == calls.value[pos + 1]
        rest  == calls.comma_value[first.pos]
    IN IF findNextToken(text, pos) # "," THEN At(Nothing, pos)
       ELSE IF ~IsValid(first.value) THEN At(Failure, pos)
       ELSE IF IsError(rest.value) THEN rest
       ELSE At(Value(ListOf(Interface), <<first.value.content>> \o rest.value.content), rest.pos)

\* The value of a field.  No quote: no field.
parseJSON_field(calls, text, pos) ==
    LET close == PositionOf(Quote, text, pos + 1)
        field == calls.value[close + 2]
    IN IF findNextToken(text, pos) # Quote THEN At(Nothing, pos)
       ELSE IF \/ close = 0
               \/ Between(text, pos, close) = ""
               \/ findNextToken(text, close + 1) # ":"
               \/ ~IsValid(field.value)
           THEN At(Failure, pos)
       ELSE field

\* The values of the fields behind the first one, in a list; a missing field
\* after a comma becomes a zero value in the list.
parseJSON_comma_field(calls, text, pos) ==
    LET first == parseJSON_field(calls, text, pos + 1)
        rest  == calls.comma_field[first.pos]
    IN IF findNextToken(text, pos) # "," THEN At(Nothing, pos)
       ELSE IF IsError(first.value) THEN first
       ELSE IF IsError(rest.value) THEN rest
       ELSE At(Value(ListOf(Interface), <<first.value>> \o rest.value.content), rest.pos)

\* What calls return that make calls in their turn, up to a depth.  A function
\* takes a token before it makes a call, so that no depth exceeds the length of
\* the text; where the text ends, each one returns nothing.
Calls(text) ==
    LET calls[depth \in Nat] ==
            IF depth = 0
            THEN LET End == [pos \in Nat |-> At(Nothing, pos)]
                 IN [value |-> End, comma_value |-> End, comma_field |-> End]
            ELSE [value       |-> [pos \in Nat |->
                                      parseJSON_value(calls[depth - 1], text, pos)],
                  comma_value |-> [pos \in Nat |->
                                      parseJSON_comma_value(calls[depth - 1], text, pos)],
                  comma_field |-> [pos \in Nat |->
                                      parseJSON_comma_field(calls[depth - 1], text, pos)]]
    IN calls

\* What follows the closing brace is not looked at.
parseJSON_obj_value(text, pos) ==
    LET calls == Calls(text)[Len(text)]
        first == parseJSON_field(calls, text, pos + 1)
        rest  == calls.comma_field[first.pos]
    IN IF findNextToken(text, pos) # "{" THEN Nothing
       ELSE IF ~IsValid(first.value)
           THEN IF IsError(first.value) THEN Failure ELSE Value(ListOf(Interface), <<>>)
       ELSE IF IsError(rest.value) \/ findNextToken(text, rest.pos) # "}" THEN Failure
       ELSE Value(ListOf(Interface), <<first.value>> \o rest.value.content)

(***************************************************************************)
(* Reading: the Reconstitute methods, by their formal arguments.  Each     *)
(* argument becomes the field of the object that stands with it.           *)
(***************************************************************************)

Arg(field, type) == [field |-> field, type |-> type]
Args(fields, type) == [i \in DOMAIN fields |-> Arg(fields[i], type)]
Strings == ListOf(String)

ReconstitutePersistObj == Args(<<"Id">>, String)

ReconstituteIdentityValidationInfo ==
    ReconstitutePersistObj \o <<Arg("UserId", String), Arg("CreationTime", Time)>>

ReconstituteACL == ReconstitutePersistObj \o <<Arg("ACLEntryIds", Strings)>>

ReconstituteResource ==
    ReconstituteACL \o Args(<<"Name", "Description", "ParentId">>, String)
        \o <<Arg("CreationTime", Time)>>

ReconstituteParty ==
    ReconstitutePersistObj \o
    <<Arg("IsActive", Bool), Arg("Name", String), Arg("CreationTime", Time),
      Arg("RealmId", String), Arg("ACLEntryIds", Strings)>>

ReconstituteGroup ==
    ReconstituteParty \o <<Arg("Description", String), Arg("UserObjIds", Strings)>>

ReconstituteUser ==
    ReconstituteParty \o Args(<<"UserId", "DefaultRepoId", "EmailAddress">>, String)
        \o <<Arg("EmailIsVerified", Bool), Arg("PasswordHash", ListOf(Byte))>>
        \o Args(<<"GroupIds", "MostRecentLoginAttempts", "EventIds">>, Strings)

ReconstituteACLEntry ==
    ReconstitutePersistObj \o Args(<<"ResourceId", "PartyId">>, String)
        \o <<Arg("PermissionMask", ListOf(Bool))>>

ReconstituteRealm ==
    ReconstituteResource \o Args(<<"AdminUserId", "OrgFullName">>, String)
        \o Args(<<"UserObjIds", "GroupIds", "RepoIds">>, Strings)
        \o Args(<<"FileDirectory">>, String)

\* Mutant: the lists of images and configurations are exchanged.
ReconstituteRepo_Exchanged ==
    ReconstituteResource
        \o Args(<<"DefaultUserIds", "DockerfileIds", "ScanConfigIds", "DockerImageIds",
                  "FlagIds">>, Strings)
        \o Args(<<"FileDirectory">>, String)

ReconstituteRepo ==
    ReconstituteResource
        \o Args(<<"DefaultUserIds", "DockerfileIds", "DockerImageIds", "ScanConfigIds",
                  "FlagIds">>, Strings)
        \o Args(<<"FileDirectory">>, String)

ReconstituteDockerfile ==
    ReconstituteResource \o <<Arg("FilePath", String), Arg("DockerfileExecEventIds", Strings)>>

ReconstituteImage == ReconstituteResource \o <<Arg("VersionIds", Strings)>>

ReconstituteDockerImage == ReconstituteImage \o <<Arg("ScanConfigsToUse", Strings)>>

\* The id is not an argument: the method makes a new one.
ReconstituteDockerImageVersion ==
    Args(<<"Version", "ImageObjId">>, String)
        \o <<Arg("CreationDate", Time), Arg("ImageCreationEventId", String),
             Arg("ScanEventIds", Strings)>>
        \o Args(<<"Digest", "Signature">>, ListOf(Byte))
        \o Args(<<"DockerBuildOutput">>, String)

ReconstituteParameterValue == ReconstitutePersistObj \o Args(<<"Name", "StringValue">>, String)

ReconstituteScanConfig ==
    ReconstituteResource \o Args(<<"SuccessExpression", "ProviderName">>, String)
        \o <<Arg("ParameterValueIds", Strings), Arg("FlagId", String)>>
        \o Args(<<"ScanEventIds", "DockerImageIdsThatUse">>, Strings)

ReconstituteScanParameterValue == ReconstituteParameterValue \o Args(<<"ConfigId">>, String)

ReconstituteFlag ==
    ReconstituteResource
        \o <<Arg("SuccessImagePath", String), Arg("UsedByScanConfigIds", Strings)>>

ReconstituteEvent ==
    ReconstitutePersistObj \o <<Arg("When", Time), Arg("UserObjId", String)>>

ReconstituteScanEvent ==
    ReconstituteEvent \o Args(<<"ScanConfigId", "DockerImageVersionId", "ProviderName">>, String)
        \o <<Arg("ActualParameterValueIds", Strings), Arg("Score", String),
             Arg("Result", ListOf(Strings))>>

ReconstituteImageCreationEvent == ReconstituteEvent \o Args(<<"ImageVersionId">>, String)

\* The parameter values of the execution are not stored.
ReconstituteDockerfileExecEvent ==
    ReconstituteImageCreationEvent \o Args(<<"DockerfileId", "DockerfileContent">>, String)

ReconstituteDockerfileExecParameterValue ==
    ReconstituteParameterValue \o Args(<<"DockerfileId">>, String)

\* The methods that reflect finds, by the type name in their names.
MethodByName ==
    [IdentityValidationInfo |-> ReconstituteIdentityValidationInfo,
     Group |-> ReconstituteGroup, User |-> ReconstituteUser,
     ACLEntry |-> ReconstituteACLEntry, Realm |-> ReconstituteRealm,
     Repo |-> ReconstituteRepo, Dockerfile |-> ReconstituteDockerfile,
     DockerImage |-> ReconstituteDockerImage,
     DockerImageVersion |-> ReconstituteDockerImageVersion,
     ScanConfig |-> ReconstituteScanConfig,
     ScanParameterValue |-> ReconstituteScanParameterValue, Flag |-> ReconstituteFlag,
     ScanEvent |-> ReconstituteScanEvent,
     DockerfileExecEvent |-> ReconstituteDockerfileExecEvent,
     DockerfileExecParameterValue |-> ReconstituteDockerfileExecParameterValue]

(***************************************************************************)
(* Reading: ReconstituteObject.                                            *)
(***************************************************************************)

Outcome(kind, object) == [kind |-> kind, object |-> object]
Error == Outcome("error", <<>>)
Panic == Outcome("panic", <<>>)

\* An int becomes a byte, an element of an empty list is none of either type.
Converts(value, type) ==
    \/ value.content = <<>>
    \/ Tail(value.type) = Tail(type)
    \/ Tail(value.type) = Int_ /\ Tail(type) = Byte

Convert(value, type) ==
    IF type = ListOf(Byte) THEN [i \in DOMAIN value.content |-> value.content[i] % 256]
                           ELSE value.content

IsList(type) == Head(type) = "list"

\* Mutant: the id that was read is not given to the object.
Call_NoId(typeName, formals, actuals) ==
    Outcome("object",
            [f \in {formals[i].field : i \in DOMAIN formals} \ {"Id"} |->
                actuals[CHOOSE j \in DOMAIN formals : formals[j].field = f].content])

\* The text's parts become the object's fields.  ReconstituteScanEvent has room
\* for exactly one vulnerability, which is blank if the list has none.
Call(typeName, formals, actuals) ==
    LET fields == {formals[i].field : i \in DOMAIN formals}
        object == [f \in fields |->
                      LET i == CHOOSE j \in DOMAIN formals : formals[j].field = f
                      IN IF IsList(formals[i].type) THEN Convert(actuals[i], formals[i].type)
                                                    ELSE actuals[i].content]
    IN IF typeName # "ScanEvent" THEN Outcome("object", object)
       ELSE IF Len(object["Result"]) > 1 THEN Panic
       ELSE IF object["Result"] = <<>>
           THEN Outcome("object", [object EXCEPT !["Result"] = <<<<"", "", "", "">>>>])
       ELSE Outcome("object", object)

Panics(actual, formal) ==
    \/ ~IsValid(actual)
    \/ IsList(actual.type) /\ ~(IsList(formal.type) /\ Converts(actual, formal.type))

Fits(actual, formal) ==
    ~Panics(actual, formal) /\ (IsList(actual.type) \/ actual.type = formal.type)

\* The method is called with the values of the fields.  If there are too many
\* or too few, their types are printed; else the first that does not fit
\* decides.
Reconstitute(typeName, formals, actuals) ==
    LET misfits == {i \in DOMAIN actuals : ~Fits(actuals[i], formals[i])}
        first   == CHOOSE i \in misfits : \A j \in misfits : i <= j
    IN IF Len(actuals) # Len(formals)
           THEN IF \A i \in DOMAIN actuals : IsValid(actuals[i]) THEN Error ELSE Panic
       ELSE IF misfits = {} THEN Call(typeName, formals, actuals)
       ELSE IF Panics(actuals[first], formals[first]) THEN Panic ELSE Error

\* The method is looked up before the fields are parsed; both fail alike.
ReconstituteFields(typeName, fields) ==
    IF typeName \notin DOMAIN MethodByName \/ IsError(fields) THEN Error
    ELSE Reconstitute(typeName, MethodByName[typeName], fields.content)

ReconstituteNamed(text, name) ==
    IF name.pos = -1 THEN Error
    ELSE ReconstituteFields(name.typeName, parseJSON_obj_value(text, name.pos))

ReconstituteObject(text) == ReconstituteNamed(text, retrieveTypeName(text))

(***************************************************************************)
(* Behaviour: an object is created, written, changed and written again, in *)
(* any number of requests; in between it is read.                          *)
(***************************************************************************)

VARIABLES
    type,           \* the type of the object
    memory,         \* the object, as -inmem keeps it
    stored,         \* the text, as redis keeps it
    got,            \* what the last getObject made of the text
    changes         \* how often the object was changed

vars == <<type, memory, stored, got, changes>>

Unread == Outcome("unread", <<>>)

\* Fields that are not arguments of their type's method.
OtherFields(t) ==
    CASE t = "DockerImageVersion"  -> <<Arg("Id", String)>>
      [] t = "DockerfileExecEvent" -> <<Arg("ActualParameterValueIds", Strings)>>
      [] OTHER -> <<>>

\* The fields of a type and what each one holds.
Kinds(t) ==
    LET formals == MethodByName[t] \o OtherFields(t)
    IN [f \in {formals[i].field : i \in DOMAIN formals} |->
            formals[CHOOSE i \in DOMAIN formals : formals[i].field = f].type]

\* An object as it is made: a string holds the name of its field, so that
\* exchanged fields show, and lists are empty.
NewObject(t) ==
    [f \in DOMAIN Kinds(t) |->
        CASE Kinds(t)[f] = String -> f
          [] Kinds(t)[f] = Bool -> FALSE
          [] Kinds(t)[f] = Time -> Date
          [] OTHER -> <<>>]

Init ==
    /\ type \in Types
    /\ memory = NewObject(type)
    /\ stored = asJSON(type, memory)
    /\ got = Unread
    /\ changes = 0

updateObject(object) ==
    /\ memory' = object
    /\ stored' = asJSON(type, object)
    /\ got' = Unread
    /\ UNCHANGED type

\* One of the methods that set a field, with the write that follows.
SetField(field) ==
    /\ ~IsList(Kinds(type)[field])
    /\ field # "Id"
    /\ \E value \in IF Kinds(type)[field] = String THEN Words
                    ELSE IF Kinds(type)[field] = Bool THEN BOOLEAN
                    ELSE {} :
           updateObject([memory EXCEPT ![field] = value])

\* One of the methods that add to a list, with the write that follows.
AddToList(field) ==
    /\ IsList(Kinds(type)[field])
    /\ Len(memory[field]) < MaxLen
    /\ \E element \in CASE Kinds(type)[field] = Strings -> Words \ {""}
                        [] Kinds(type)[field] = ListOf(Byte) -> Bytes
                        [] Kinds(type)[field] = ListOf(Bool) -> BOOLEAN
                        [] OTHER -> {<<"CVE", "link", "High", w>> : w \in Words} :
           updateObject([memory EXCEPT ![field] = Append(@, element)])

\* One of the methods that take an id out of a list, with the write that follows.
RemoveFromList(field) ==
    /\ Kinds(type)[field] = Strings
    /\ \E i \in DOMAIN memory[field] :
           updateObject([memory EXCEPT ![field] = RemoveAt(@, i)])

Change ==
    /\ changes < MaxChanges
    /\ changes' = changes + 1
    /\ \E field \in DOMAIN memory :
           \/ SetField(field)
           \/ AddToList(field)
           \/ RemoveFromList(field)

getObject ==
    /\ got' = ReconstituteObject(stored)
    /\ UNCHANGED <<type, memory, stored, changes>>

Next == Change \/ getObject

Spec == Init /\ [][Next]_vars

(***************************************************************************)
(* What the environment gives.                                             *)
(***************************************************************************)

\* What the strings of objects hold: Sanitize, which every value of a request
\* passes that is stored, lets through no quote and nothing that rest would take
\* for an escaped string.
PlainStrings == Words \cup UNION {DOMAIN Kinds(t) : t \in Types}

ASSUME TypesAreKnown == Types \subseteq DOMAIN MethodByName

ASSUME StringsArePlain ==
    \A s \in PlainStrings : s # Quote /\ DecodeStringFromJSON(s) = s

ASSUME DateIsWord == Date # "" /\ Date # Quote

\* A byte is told from every other byte and from all that is not a number.
ASSUME NumeralsDiffer ==
    \A b \in Bytes :
        /\ b \in 0 .. 255
        /\ ToString(b) \notin {"", Quote, "[", "]", "time", "true", "false"}
        /\ \A c \in Bytes : ToString(c) = ToString(b) => c = b

(***************************************************************************)
(* Properties                                                              *)
(***************************************************************************)

TypeOK ==
    /\ type \in Types
    /\ DOMAIN memory = DOMAIN Kinds(type)
    /\ got.kind \in {"unread", "object", "error", "panic"}
    /\ got.kind = "object" => DOMAIN got.object = DOMAIN memory

\* These cannot be made again from their texts: the versions of images and the
\* values of parameters are written without a type name, the times of events in
\* two pairs of quotes.
Unreadable ==
    {"DockerImageVersion", "ScanParameterValue", "DockerfileExecParameterValue",
     "ScanEvent", "DockerfileExecEvent"}

\* A request that reads an object from redis gets the object that was written
\* last, with every field and the order of every list, as it would with -inmem:
\* for all types but the unreadable ones.
RoundTrips == got.kind # "unread" /\ type \notin Unreadable => got = Outcome("object", memory)

\* Of an object of an unreadable type, a request gets an error: it never gets
\* an object that differs from the one that was written, and never panics.
NeverMisread == got.kind # "unread" /\ type \in Unreadable => got = Error

\* Every object that was written can be read again.  The comment on
\* Persistence.updateObject says that objects are written so that they can be
\* mapped back to their go types.
StoredObjectsReadable == got.kind # "error"

=============================================================================
