------------------------ MODULE StoredObjects_proofs ------------------------
(***************************************************************************)
(* What a request reads of an object, with redis, is what was written, for *)
(* the types that can be read; for the others it is an error.              *)
(*                                                                         *)
(* The fields that are written and the formal arguments that they become   *)
(* are followed through the methods that both are put together from.       *)
(***************************************************************************)
EXTENDS StoredTexts_proofs

(***************************************************************************)
(* What the fields of objects hold.                                        *)
(***************************************************************************)

\* What a field of a type may be set to.
Contents(type_) ==
    CASE type_ = String -> PlainStrings
      [] type_ = Time -> {Date}
      [] type_ = Bool -> BOOLEAN
      [] type_ = Strings -> Seq(PlainStrings)
      [] type_ = ListOf(Byte) -> Seq(Bytes)
      [] type_ = ListOf(Bool) -> Seq(BOOLEAN)
      [] OTHER -> Seq(Seq(PlainStrings \cup {"CVE", "link", "High"}))

\* The types are sequences of words.
LEMMA SimpleTypesAre ==
    /\ IsSeq(String) /\ Len(String) = 1 /\ Head(String) = "string" /\ String[1] = "string"
    /\ IsSeq(Time) /\ Len(Time) = 1 /\ Head(Time) = "time" /\ Time[1] = "time"
    /\ IsSeq(Bool) /\ Len(Bool) = 1 /\ Head(Bool) = "bool" /\ Bool[1] = "bool"
    /\ IsSeq(Byte) /\ Len(Byte) = 1 /\ Head(Byte) = "byte" /\ Byte[1] = "byte"
    /\ IsSeq(Int_) /\ Len(Int_) = 1 /\ Head(Int_) = "int" /\ Int_[1] = "int"
    /\ IsSeq(Interface) /\ Len(Interface) = 1 /\ Head(Interface) = "interface"
<1>1. IsSeq(String) /\ IsSeq(Time) /\ IsSeq(Bool) /\ IsSeq(Byte) /\ IsSeq(Int_)
      /\ IsSeq(Interface)
    BY SeqOne, Zenon DEF String, Time, Bool, Byte, Int_, Interface
<1>2. /\ Len(String) = 1 /\ Head(String) = "string" /\ String[1] = "string"
      /\ Len(Time) = 1 /\ Head(Time) = "time" /\ Time[1] = "time"
      /\ Len(Bool) = 1 /\ Head(Bool) = "bool" /\ Bool[1] = "bool"
      /\ Len(Byte) = 1 /\ Head(Byte) = "byte" /\ Byte[1] = "byte"
      /\ Len(Int_) = 1 /\ Head(Int_) = "int" /\ Int_[1] = "int"
      /\ Len(Interface) = 1 /\ Head(Interface) = "interface"
    BY DEF String, Time, Bool, Byte, Int_, Interface
<1> QED BY <1>1, <1>2

\* Those of lists start with the word list.
LEMMA ListTypesAre ==
    /\ IsSeq(Strings) /\ Head(Strings) = "list" /\ Tail(Strings) = String
    /\ Head(ListOf(Byte)) = "list" /\ Tail(ListOf(Byte)) = Byte
    /\ Head(ListOf(Bool)) = "list" /\ Tail(ListOf(Bool)) = Bool
    /\ Head(ListOf(Int_)) = "list" /\ Tail(ListOf(Int_)) = Int_
    /\ Head(ListOf(Strings)) = "list" /\ Tail(ListOf(Strings)) = Strings
    /\ Head(ListOf(Interface)) = "list"
<1>1. /\ IsSeq(Strings) /\ Head(Strings) = "list" /\ Tail(Strings) = String
    BY SimpleTypesAre, ListType DEF Strings
<1> QED BY <1>1, SimpleTypesAre, ListType

\* They are told apart.
LEMMA TypesDiffer ==
    /\ ~IsList(String) /\ ~IsList(Time) /\ ~IsList(Bool)
    /\ IsList(Strings) /\ IsList(ListOf(Byte)) /\ IsList(ListOf(Bool))
    /\ IsList(ListOf(Strings)) /\ IsList(ListOf(Int_)) /\ IsList(ListOf(Interface))
    /\ String # Time /\ String # Bool /\ Time # Bool
    /\ Strings # ListOf(Byte) /\ Strings # ListOf(Bool) /\ Strings # ListOf(Strings)
    /\ ListOf(Byte) # ListOf(Bool) /\ ListOf(Byte) # ListOf(Strings)
    /\ ListOf(Bool) # ListOf(Strings)
<1>1. /\ ~IsList(String) /\ ~IsList(Time) /\ ~IsList(Bool)
    BY SimpleTypesAre DEF IsList
<1>2. /\ IsList(Strings) /\ IsList(ListOf(Byte)) /\ IsList(ListOf(Bool))
      /\ IsList(ListOf(Strings)) /\ IsList(ListOf(Int_)) /\ IsList(ListOf(Interface))
    BY ListTypesAre, Zenon DEF IsList
<1>3. String # Time /\ String # Bool /\ Time # Bool /\ String # Byte /\ Bool # Byte
    BY SimpleTypesAre
<1>4. Strings # String /\ Strings # Bool /\ Strings # Byte
    BY SimpleTypesAre, ListTypesAre
<1> QED BY <1>1, <1>2, <1>3, <1>4, ListTypesAre

\* What the types of fields are set to.
LEMMA ContentsAre ==
    /\ Contents(String) = PlainStrings
    /\ Contents(Time) = {Date}
    /\ Contents(Bool) = BOOLEAN
    /\ Contents(Strings) = Seq(PlainStrings)
    /\ Contents(ListOf(Byte)) = Seq(Bytes)
    /\ Contents(ListOf(Bool)) = Seq(BOOLEAN)
    /\ Contents(ListOf(Strings)) = Seq(Seq(PlainStrings \cup {"CVE", "link", "High"}))
<1>1. /\ Strings \notin {String, Time, Bool} /\ ListOf(Byte) \notin {String, Time, Bool}
      /\ ListOf(Bool) \notin {String, Time, Bool} /\ ListOf(Strings) \notin {String, Time, Bool}
    BY TypesDiffer, Zenon
<1> QED BY <1>1, TypesDiffer, Zenon DEF Contents

\* The fields of a formal argument.
LEMMA ArgFields ==
    ASSUME NEW field, NEW type_
    PROVE  Arg(field, type_).field = field /\ Arg(field, type_).type = type_
BY DEF Arg

\* The field of the object is set to something of its type.
SetTo(formal, object) == IsName(formal.field) /\ object[formal.field] \in Contents(formal.type)

\* The text is read as the value, which fits and becomes what the object holds.
Gives(field, formal, object, value) ==
    /\ ReadableField(field, value)
    /\ Fits(value, formal)
    /\ object[formal.field] = IF IsList(formal.type) THEN Convert(value, formal.type)
                                                     ELSE value.content

Written(field, formal, object) == \E value : Gives(field, formal, object, value)

\* A field with a simple value is written if the value is readable.
LEMMA SimpleWritten ==
    ASSUME NEW name, NEW type_, ~IsList(type_), NEW piece, NEW object,
           SetTo(Arg(name, type_), object), Readable(piece, Value(type_, object[name]))
    PROVE  Written(Field(name, piece), Arg(name, type_), object)
<1>1. PICK value, formal : value = Value(type_, object[name]) /\ formal = Arg(name, type_)
    OBVIOUS
<1>2. value.type = type_ /\ value.content = object[name]
    BY <1>1, ValueFields
<1>3. formal.type = type_ /\ formal.field = name
    BY <1>1, ArgFields
<1>4. ReadableField(Field(name, piece), value)
    BY <1>1, <1>3, FieldReadable DEF SetTo
<1>5. IsValid(value)
    BY <1>1 DEF Readable
<1>6. Fits(value, formal)
    BY <1>2, <1>3, <1>5, Zenon DEF Fits, Panics
<1> QED BY <1>1, <1>2, <1>3, <1>4, <1>6, Zenon DEF Written, Gives

\* So is a list, if its elements have the type of the argument or become that.
LEMMA ListWritten ==
    ASSUME NEW name, NEW list, IsSeq(list), NEW type_, NEW formalType, NEW object,
           SetTo(Arg(name, ListOf(formalType)), object), object[name] = list,
           IsSeq(type_), IsSeq(formalType),
           type_ = formalType \/ (type_ = Int_ /\ formalType = Byte),
           NEW piece, Readable(piece, ListValue(type_, list)),
           Convert(ListValue(type_, list), ListOf(formalType)) = list
    PROVE  Written(Field(name, piece), Arg(name, ListOf(formalType)), object)
<1>1. PICK value, formal : value = ListValue(type_, list) /\ formal = Arg(name, ListOf(formalType))
    OBVIOUS
<1>2. PICK element : element = IF list = <<>> THEN Interface ELSE type_
    OBVIOUS
<1>3. value.type = ListOf(element) /\ value.content = list
  <2>1. value = Value(ListOf(element), list)
      BY <1>1, <1>2 DEF ListValue
  <2> QED BY <2>1, ValueFields
<1>4. formal.type = ListOf(formalType) /\ formal.field = name
    BY <1>1, ArgFields
<1>5. IsSeq(element)
    BY <1>2, SimpleTypesAre, Zenon
<1>6. IsList(value.type) /\ IsList(formal.type)
    BY <1>3, <1>4, <1>5, ListType, Zenon DEF IsList
<1>7. Converts(value, formal.type)
  <2>1. CASE list = <<>>
      BY <1>3, <2>1, Zenon DEF Converts
  <2>2. CASE list # <<>>
    <3>1. element = type_
        BY <1>2, <2>2, Zenon
    <3>2. Tail(value.type) = type_ /\ Tail(formal.type) = formalType
        BY <1>3, <1>4, <1>5, <3>1, ListType, Zenon
    <3> QED BY <3>2, Zenon DEF Converts
  <2> QED BY <2>1, <2>2
<1>8. ReadableField(Field(name, piece), value)
    BY <1>1, <1>4, FieldReadable DEF SetTo
<1>9. IsValid(value)
    BY <1>1 DEF Readable
<1>10. Fits(value, formal)
    BY <1>6, <1>7, <1>9, Zenon DEF Fits, Panics
<1>11. object[formal.field] = Convert(value, formal.type)
    BY <1>1, <1>4
<1> QED BY <1>1, <1>6, <1>8, <1>10, <1>11, Zenon DEF Written, Gives

\* One kind of field after the other.
LEMMA StringWritten ==
    ASSUME NEW name, NEW object, SetTo(Arg(name, String), object)
    PROVE  Written(StringField(name, object), Arg(name, String), object)
<1>1. object[name] \in PlainStrings
    BY ArgFields, ContentsAre DEF SetTo
<1>2. Readable(Quoted(object[name]), Value(String, object[name]))
    BY <1>1, StringsArePlain, ReadableString DEF Plain
<1> QED BY <1>2, SimpleWritten, TypesDiffer DEF StringField

LEMMA TimeWritten ==
    ASSUME NEW name, NEW object, SetTo(Arg(name, Time), object)
    PROVE  Written(TimeField(name, object), Arg(name, Time), object)
<1>1. object[name] = Date
    BY ArgFields, ContentsAre DEF SetTo
<1>2. Readable(<<"time">> \o FormatTimeAsJavascriptDate(object[name]),
               Value(Time, object[name]))
    BY <1>1, ReadableTime
<1> QED BY <1>2, SimpleWritten, TypesDiffer DEF TimeField

LEMMA BoolWritten ==
    ASSUME NEW name, NEW object, SetTo(Arg(name, Bool), object)
    PROVE  Written(BoolField(name, object), Arg(name, Bool), object)
<1>1. object[name] \in BOOLEAN
    BY ArgFields, ContentsAre DEF SetTo
<1>2. Readable(BoolToString(object[name]), Value(Bool, object[name]))
    BY <1>1, ReadableBool
<1> QED BY <1>2, SimpleWritten, TypesDiffer DEF BoolField

\* The elements of a sequence.
LEMMA SeqElements ==
    ASSUME NEW S, NEW list \in Seq(S)
    PROVE  /\ IsSeq(list)
           /\ DOMAIN list = 1 .. Len(list)
           /\ \A i \in 1 .. Len(list) : list[i] \in S
<1>1. IsSeq(list)
    BY Zenon DEF IsSeq
<1> QED BY <1>1

\* What becomes of each element of a list is a list again.
LEMMA Elementwise ==
    ASSUME NEW list, IsSeq(list), NEW texts, texts = [i \in DOMAIN list |-> texts[i]]
    PROVE  IsSeq(texts) /\ Len(texts) = Len(list)
<1>1. PICK n \in Nat : n = Len(list) /\ DOMAIN list = 1 .. n
    BY SeqLen
<1>2. texts = [i \in 1 .. n |-> texts[i]]
    BY <1>1
<1> QED BY <1>1, <1>2, SeqFunction

LEMMA ListFieldWritten ==
    ASSUME NEW name, NEW object, SetTo(Arg(name, Strings), object)
    PROVE  Written(ListField(name, object), Arg(name, Strings), object)
<1>1. PICK list : list = object[name]
    OBVIOUS
<1>2. list \in Seq(PlainStrings)
    BY <1>1, ArgFields, ContentsAre DEF SetTo
<1>3. /\ IsSeq(list) /\ DOMAIN list = 1 .. Len(list)
      /\ \A i \in 1 .. Len(list) : list[i] \in PlainStrings
    BY <1>2, SeqElements
<1>4. PICK texts : texts = [i \in DOMAIN list |-> Quoted(list[i])]
    OBVIOUS
<1>5. IsSeq(texts) /\ Len(texts) = Len(list)
    BY <1>3, <1>4, Elementwise
<1>6. ASSUME NEW i \in 1 .. Len(list) PROVE Readable(texts[i], Value(String, list[i]))
  <2>1. texts[i] = Quoted(list[i])
      BY <1>3, <1>4
  <2>2. Plain(list[i])
      BY <1>3, StringsArePlain DEF Plain
  <2> QED BY <2>1, <2>2, ReadableString
<1>7. Readable(Array(texts), ListValue(String, list))
    BY <1>3, <1>5, <1>6, SimpleTypesAre, ReadableArray
<1>8. Convert(ListValue(String, list), ListOf(String)) = list
  <2>1. ListOf(String) # ListOf(Byte)
      BY TypesDiffer DEF Strings
  <2>2. ListValue(String, list).content = list
      BY ValueFields DEF ListValue
  <2> QED BY <2>1, <2>2, Zenon DEF Convert
<1>9. Written(Field(name, Array(texts)), Arg(name, ListOf(String)), object)
    BY <1>1, <1>3, <1>7, <1>8, SimpleTypesAre, ListWritten DEF Strings
<1> QED BY <1>1, <1>4, <1>9 DEF ListField, Strings

LEMMA BytesWritten ==
    ASSUME NEW name, NEW object, SetTo(Arg(name, ListOf(Byte)), object)
    PROVE  Written(Field(name, ByteArrayAsJSON(object[name])), Arg(name, ListOf(Byte)), object)
<1>1. PICK list : list = object[name]
    OBVIOUS
<1>2. list \in Seq(Bytes)
    BY <1>1, ArgFields, ContentsAre DEF SetTo
<1>3. /\ IsSeq(list) /\ DOMAIN list = 1 .. Len(list)
      /\ \A i \in 1 .. Len(list) : list[i] \in Bytes
    BY <1>2, SeqElements
<1>4. PICK texts : texts = [i \in DOMAIN list |-> <<ToString(list[i])>>]
    OBVIOUS
<1>5. IsSeq(texts) /\ Len(texts) = Len(list)
    BY <1>3, <1>4, Elementwise
<1>6. ASSUME NEW i \in 1 .. Len(list) PROVE Readable(texts[i], Value(Int_, list[i]))
  <2>1. texts[i] = <<ToString(list[i])>>
      BY <1>3, <1>4
  <2> QED BY <1>3, <2>1, ReadableByte
<1>7. Readable(Array(texts), ListValue(Int_, list))
    BY <1>3, <1>5, <1>6, SimpleTypesAre, ReadableArray
<1>8. Convert(ListValue(Int_, list), ListOf(Byte)) = list
  <2>1. ListValue(Int_, list).content = list
      BY ValueFields DEF ListValue
  <2>2. Convert(ListValue(Int_, list), ListOf(Byte)) = [i \in DOMAIN list |-> list[i] % 256]
      BY <2>1, Zenon DEF Convert
  <2>3. \A i \in DOMAIN list : list[i] % 256 = list[i]
    <3>1. \A b \in 0 .. 255 : b % 256 = b
        OBVIOUS
    <3>2. \A i \in DOMAIN list : list[i] \in 0 .. 255
        BY <1>3, NumeralsDiffer
    <3> QED BY <3>1, <3>2, Zenon
  <2>4. list = [i \in DOMAIN list |-> list[i]]
      BY <1>2
  <2> QED BY <2>2, <2>3, <2>4, Zenon
<1>9. Written(Field(name, Array(texts)), Arg(name, ListOf(Byte)), object)
    BY <1>1, <1>3, <1>7, <1>8, SimpleTypesAre, ListWritten
<1> QED BY <1>1, <1>4, <1>9 DEF ByteArrayAsJSON

\* The mask of permissions.
BoolsField(name, object) ==
    Field(name, Array([i \in DOMAIN object[name] |-> BoolToString(object[name][i])]))

LEMMA BoolsWritten ==
    ASSUME NEW name, NEW object, SetTo(Arg(name, ListOf(Bool)), object)
    PROVE  Written(BoolsField(name, object), Arg(name, ListOf(Bool)), object)
<1>1. PICK list : list = object[name]
    OBVIOUS
<1>2. list \in Seq(BOOLEAN)
    BY <1>1, ArgFields, ContentsAre DEF SetTo
<1>3. /\ IsSeq(list) /\ DOMAIN list = 1 .. Len(list)
      /\ \A i \in 1 .. Len(list) : list[i] \in BOOLEAN
    BY <1>2, SeqElements
<1>4. PICK texts : texts = [i \in DOMAIN list |-> BoolToString(list[i])]
    OBVIOUS
<1>5. IsSeq(texts) /\ Len(texts) = Len(list)
    BY <1>3, <1>4, Elementwise
<1>6. ASSUME NEW i \in 1 .. Len(list) PROVE Readable(texts[i], Value(Bool, list[i]))
  <2>1. texts[i] = BoolToString(list[i])
      BY <1>3, <1>4
  <2> QED BY <1>3, <2>1, ReadableBool
<1>7. Readable(Array(texts), ListValue(Bool, list))
    BY <1>3, <1>5, <1>6, SimpleTypesAre, ReadableArray
<1>8. Convert(ListValue(Bool, list), ListOf(Bool)) = list
  <2>1. ListOf(Bool) # ListOf(Byte)
      BY TypesDiffer
  <2>2. ListValue(Bool, list).content = list
      BY ValueFields DEF ListValue
  <2> QED BY <2>1, <2>2, Zenon DEF Convert
<1>9. Written(Field(name, Array(texts)), Arg(name, ListOf(Bool)), object)
    BY <1>1, <1>3, <1>7, <1>8, SimpleTypesAre, ListWritten
<1> QED BY <1>1, <1>4, <1>9 DEF BoolsField

(***************************************************************************)
(* The fields that asJSON writes and the formal arguments that they become *)
(* stand in the same order, whatever parts both are put together from.     *)
(***************************************************************************)

\* One field becomes one argument, if the object's field is what it should be.
Pair(field, formal, object) == SetTo(formal, object) => Written(field, formal, object)

\* The fields become the formal arguments, in their order.
Writes(fields, formals, object) ==
    /\ IsSeq(fields) /\ IsSeq(formals)
    /\ Len(fields) = Len(formals)
    /\ \A i \in 1 .. Len(formals) : Pair(fields[i], formals[i], object)

\* Parts may be put together.
LEMMA WritesConcat ==
    ASSUME NEW object, NEW fields1, NEW formals1, Writes(fields1, formals1, object),
           NEW fields2, NEW formals2, Writes(fields2, formals2, object)
    PROVE  Writes(fields1 \o fields2, formals1 \o formals2, object)
<1>1. PICK fields, formals : fields = fields1 \o fields2 /\ formals = formals1 \o formals2
    OBVIOUS
<1>2. PICK m \in Nat, n \in Nat : /\ m = Len(formals1) /\ m = Len(fields1)
                                  /\ n = Len(formals2) /\ n = Len(fields2)
    BY SeqLen DEF Writes
<1>3. /\ IsSeq(fields) /\ Len(fields) = m + n
      /\ \A i \in 1 .. m : fields[i] = fields1[i]
      /\ \A i \in 1 .. n : fields[m + i] = fields2[i]
  <2>1. IsSeq(fields1) /\ IsSeq(fields2)
      BY DEF Writes
  <2>2. /\ IsSeq(fields1 \o fields2) /\ Len(fields1 \o fields2) = Len(fields1) + Len(fields2)
        /\ \A i \in 1 .. Len(fields1) : (fields1 \o fields2)[i] = fields1[i]
        /\ \A i \in 1 .. Len(fields2) : (fields1 \o fields2)[Len(fields1) + i] = fields2[i]
      BY ONLY <2>1, SeqConcat
  <2> QED BY <1>1, <1>2, <2>2
<1>4. /\ IsSeq(formals) /\ Len(formals) = m + n
      /\ \A i \in 1 .. m : formals[i] = formals1[i]
      /\ \A i \in 1 .. n : formals[m + i] = formals2[i]
  <2>1. IsSeq(formals1) /\ IsSeq(formals2)
      BY DEF Writes
  <2>2. /\ IsSeq(formals1 \o formals2) /\ Len(formals1 \o formals2) = Len(formals1) + Len(formals2)
        /\ \A i \in 1 .. Len(formals1) : (formals1 \o formals2)[i] = formals1[i]
        /\ \A i \in 1 .. Len(formals2) : (formals1 \o formals2)[Len(formals1) + i] = formals2[i]
      BY ONLY <2>1, SeqConcat
  <2> QED BY <1>1, <1>2, <2>2
<1>5. ASSUME NEW i \in 1 .. m + n PROVE Pair(fields[i], formals[i], object)
  <2>1. CASE i \in 1 .. m
      BY <1>2, <1>3, <1>4, <2>1 DEF Writes
  <2>2. CASE i \notin 1 .. m
    <3>1. PICK j \in 1 .. n : i = m + j
      <4>1. i - m \in 1 .. n /\ i = m + (i - m)
          BY <2>2
      <4> QED BY <4>1
    <3>2. fields[i] = fields2[j] /\ formals[i] = formals2[j]
        BY <1>3, <1>4, <3>1
    <3> QED BY <1>2, <3>2 DEF Writes
  <2> QED BY <2>1, <2>2
<1>6. Writes(fields, formals, object)
    BY <1>3, <1>4, <1>5 DEF Writes
<1> QED BY <1>1, <1>6

\* Fields that are all strings, or all lists of strings.
LEMMA WritesStringFields ==
    ASSUME NEW names, IsSeq(names), NEW object
    PROVE  Writes(StringFields(names, object), Args(names, String), object)
<1>1. PICK fields, formals :
          fields = StringFields(names, object) /\ formals = Args(names, String)
    OBVIOUS
<1>2. PICK n \in Nat : n = Len(names) /\ DOMAIN names = 1 .. n
    BY SeqLen
<1>3. /\ fields = [i \in DOMAIN names |-> StringField(names[i], object)]
      /\ formals = [i \in DOMAIN names |-> Arg(names[i], String)]
    BY <1>1 DEF StringFields, Args
<1>4. IsSeq(fields) /\ Len(fields) = n /\ IsSeq(formals) /\ Len(formals) = n
    BY <1>2, <1>3, Elementwise
<1>5. ASSUME NEW i \in 1 .. n PROVE Pair(fields[i], formals[i], object)
  <2>1. fields[i] = StringField(names[i], object) /\ formals[i] = Arg(names[i], String)
      BY <1>2, <1>3
  <2> QED BY <2>1, StringWritten DEF Pair
<1> QED BY <1>1, <1>4, <1>5 DEF Writes

LEMMA WritesListFields ==
    ASSUME NEW names, IsSeq(names), NEW object
    PROVE  Writes(ListFields(names, object), Args(names, Strings), object)
<1>1. PICK fields, formals :
          fields = ListFields(names, object) /\ formals = Args(names, Strings)
    OBVIOUS
<1>2. PICK n \in Nat : n = Len(names) /\ DOMAIN names = 1 .. n
    BY SeqLen
<1>3. /\ fields = [i \in DOMAIN names |-> ListField(names[i], object)]
      /\ formals = [i \in DOMAIN names |-> Arg(names[i], Strings)]
    BY <1>1 DEF ListFields, Args
<1>4. IsSeq(fields) /\ Len(fields) = n /\ IsSeq(formals) /\ Len(formals) = n
    BY <1>2, <1>3, Elementwise
<1>5. ASSUME NEW i \in 1 .. n PROVE Pair(fields[i], formals[i], object)
  <2>1. fields[i] = ListField(names[i], object) /\ formals[i] = Arg(names[i], Strings)
      BY <1>2, <1>3
  <2> QED BY <2>1, ListFieldWritten DEF Pair
<1> QED BY <1>1, <1>4, <1>5 DEF Writes

\* Fields that are listed one by one.
LEMMA WritesOne ==
    ASSUME NEW object, NEW field, NEW formal, Pair(field, formal, object)
    PROVE  Writes(<<field>>, <<formal>>, object)
<1>1. PICK fields, formals : fields = <<field>> /\ formals = <<formal>>
    OBVIOUS
<1>2. IsSeq(fields) /\ IsSeq(formals)
    BY <1>1, SeqOne
<1>3. Len(fields) = 1 /\ Len(formals) = 1 /\ fields[1] = field /\ formals[1] = formal
    BY <1>1
<1>4. \A i \in 1 .. 1 : Pair(fields[i], formals[i], object)
    BY <1>3
<1> QED BY <1>1, <1>2, <1>3, <1>4 DEF Writes

LEMMA WritesTwo ==
    ASSUME NEW object, NEW field1, NEW formal1, Pair(field1, formal1, object),
           NEW field2, NEW formal2, Pair(field2, formal2, object)
    PROVE  Writes(<<field1, field2>>, <<formal1, formal2>>, object)
<1>1. PICK fields, formals : fields = <<field1, field2>> /\ formals = <<formal1, formal2>>
    OBVIOUS
<1>2. IsSeq(fields) /\ IsSeq(formals)
    BY <1>1, SeqTwo
<1>3. /\ Len(fields) = 2 /\ fields[1] = field1 /\ fields[2] = field2
      /\ Len(formals) = 2 /\ formals[1] = formal1 /\ formals[2] = formal2
    BY <1>1
<1>4. \A i \in 1 .. 2 : Pair(fields[i], formals[i], object)
    BY <1>3
<1> QED BY <1>1, <1>2, <1>3, <1>4 DEF Writes

LEMMA WritesFive ==
    ASSUME NEW object,
           NEW field1, NEW formal1, Pair(field1, formal1, object),
           NEW field2, NEW formal2, Pair(field2, formal2, object),
           NEW field3, NEW formal3, Pair(field3, formal3, object),
           NEW field4, NEW formal4, Pair(field4, formal4, object),
           NEW field5, NEW formal5, Pair(field5, formal5, object)
    PROVE  Writes(<<field1, field2, field3, field4, field5>>,
                  <<formal1, formal2, formal3, formal4, formal5>>, object)
<1>1. PICK fields, formals : /\ fields = <<field1, field2, field3, field4, field5>>
                             /\ formals = <<formal1, formal2, formal3, formal4, formal5>>
    OBVIOUS
<1>2. IsSeq(fields)
  <2>1. fields \in Seq({field1, field2, field3, field4, field5})
      BY <1>1
  <2> QED BY <2>1, Zenon DEF IsSeq
<1>3. IsSeq(formals)
  <2>1. formals \in Seq({formal1, formal2, formal3, formal4, formal5})
      BY <1>1
  <2> QED BY <2>1, Zenon DEF IsSeq
<1>4. /\ Len(fields) = 5 /\ fields[1] = field1 /\ fields[2] = field2 /\ fields[3] = field3
      /\ fields[4] = field4 /\ fields[5] = field5
    BY <1>1
<1>5. /\ Len(formals) = 5 /\ formals[1] = formal1 /\ formals[2] = formal2
      /\ formals[3] = formal3 /\ formals[4] = formal4 /\ formals[5] = formal5
    BY <1>1
<1>6. \A i \in 1 .. 5 : Pair(fields[i], formals[i], object)
  <2>1. \A i \in 1 .. 5 : i = 1 \/ i = 2 \/ i = 3 \/ i = 4 \/ i = 5
      OBVIOUS
  <2> QED BY <1>4, <1>5, <2>1, Zenon
<1> QED BY <1>1, <1>2, <1>3, <1>4, <1>5, <1>6 DEF Writes

\* One field of each kind.
LEMMA Pairs ==
    ASSUME NEW name, NEW object
    PROVE  /\ Pair(StringField(name, object), Arg(name, String), object)
           /\ Pair(TimeField(name, object), Arg(name, Time), object)
           /\ Pair(BoolField(name, object), Arg(name, Bool), object)
           /\ Pair(ListField(name, object), Arg(name, Strings), object)
           /\ Pair(Field(name, ByteArrayAsJSON(object[name])), Arg(name, ListOf(Byte)), object)
           /\ Pair(BoolsField(name, object), Arg(name, ListOf(Bool)), object)
BY StringWritten, TimeWritten, BoolWritten, ListFieldWritten, BytesWritten, BoolsWritten DEF Pair

\* The methods that types share.
LEMMA WritesPersistObj ==
    ASSUME NEW object
    PROVE  Writes(persistObjFieldsAsJSON(object), ReconstitutePersistObj, object)
BY WritesStringFields, SeqOne DEF persistObjFieldsAsJSON, ReconstitutePersistObj

LEMMA WritesACL ==
    ASSUME NEW object
    PROVE  Writes(aclFieldsAsJSON(object), ReconstituteACL, object)
<1>1. Writes(<<ListField("ACLEntryIds", object)>>, <<Arg("ACLEntryIds", Strings)>>, object)
    BY WritesOne, Pairs
<1> QED BY <1>1, WritesPersistObj, WritesConcat DEF aclFieldsAsJSON, ReconstituteACL

LEMMA WritesResource ==
    ASSUME NEW object
    PROVE  Writes(resourceFieldsAsJSON(object), ReconstituteResource, object)
<1> DEFINE names == <<"Name", "Description", "ParentId">>
<1>1. Writes(StringFields(names, object), Args(names, String), object)
    BY WritesStringFields, SeqThree
<1>2. Writes(<<TimeField("CreationTime", object)>>, <<Arg("CreationTime", Time)>>, object)
    BY WritesOne, Pairs
<1> QED BY <1>1, <1>2, WritesACL, WritesConcat DEF resourceFieldsAsJSON, ReconstituteResource

LEMMA WritesParty ==
    ASSUME NEW object
    PROVE  Writes(partyFieldsAsJSON(object), ReconstituteParty, object)
<1>1. Writes(<<BoolField("IsActive", object), StringField("Name", object),
               TimeField("CreationTime", object), StringField("RealmId", object),
               ListField("ACLEntryIds", object)>>,
             <<Arg("IsActive", Bool), Arg("Name", String), Arg("CreationTime", Time),
               Arg("RealmId", String), Arg("ACLEntryIds", Strings)>>, object)
    BY WritesFive, Pairs
<1> QED BY <1>1, WritesPersistObj, WritesConcat DEF partyFieldsAsJSON, ReconstituteParty

(***************************************************************************)
(* The types whose objects are made again.                                 *)
(***************************************************************************)

\* The methods by the names of the types.
LEMMA MethodsAre ==
    /\ MethodByName["IdentityValidationInfo"] = ReconstituteIdentityValidationInfo
    /\ MethodByName["Group"] = ReconstituteGroup
    /\ MethodByName["User"] = ReconstituteUser
    /\ MethodByName["ACLEntry"] = ReconstituteACLEntry
    /\ MethodByName["Realm"] = ReconstituteRealm
    /\ MethodByName["Repo"] = ReconstituteRepo
    /\ MethodByName["Dockerfile"] = ReconstituteDockerfile
    /\ MethodByName["DockerImage"] = ReconstituteDockerImage
    /\ MethodByName["DockerImageVersion"] = ReconstituteDockerImageVersion
    /\ MethodByName["ScanConfig"] = ReconstituteScanConfig
    /\ MethodByName["ScanParameterValue"] = ReconstituteScanParameterValue
    /\ MethodByName["Flag"] = ReconstituteFlag
    /\ MethodByName["ScanEvent"] = ReconstituteScanEvent
    /\ MethodByName["DockerfileExecEvent"] = ReconstituteDockerfileExecEvent
    /\ MethodByName["DockerfileExecParameterValue"] = ReconstituteDockerfileExecParameterValue
BY DEF MethodByName

\* The texts by the names of the types.
LEMMA TextsAre ==
    ASSUME NEW object
    PROVE  /\ asJSON("IdentityValidationInfo", object) = IdentityValidationInfo_asJSON(object)
           /\ asJSON("Group", object) = Group_asJSON(object)
           /\ asJSON("User", object) = User_asJSON(object)
           /\ asJSON("ACLEntry", object) = ACLEntry_asJSON(object)
           /\ asJSON("Realm", object) = Realm_asJSON(object)
           /\ asJSON("Repo", object) = Repo_asJSON(object)
           /\ asJSON("Dockerfile", object) = Dockerfile_asJSON(object)
           /\ asJSON("DockerImage", object) = DockerImage_asJSON(object)
           /\ asJSON("DockerImageVersion", object) = DockerImageVersion_asJSON(object)
           /\ asJSON("ScanConfig", object) = ScanConfig_asJSON(object)
           /\ asJSON("ScanParameterValue", object) = ScanParameterValue_asJSON(object)
           /\ asJSON("Flag", object) = Flag_asJSON(object)
           /\ asJSON("ScanEvent", object) = ScanEvent_asJSON(object)
           /\ asJSON("DockerfileExecEvent", object) = DockerfileExecEvent_asJSON(object)
           /\ asJSON("DockerfileExecParameterValue", object)
                  = DockerfileExecParameterValue_asJSON(object)
BY DEF asJSON

\* What is written under the name of a type is what its method takes.
Codes(typeName, text, object) ==
    \E fields : text = Named(typeName, fields) /\ Writes(fields, MethodByName[typeName], object)

\* Each of the readable types.
LEMMA CodesIdentityValidationInfo ==
    ASSUME NEW object
    PROVE  Codes("IdentityValidationInfo", IdentityValidationInfo_asJSON(object), object)
<1>1. Writes(<<StringField("UserId", object), TimeField("CreationTime", object)>>,
             <<Arg("UserId", String), Arg("CreationTime", Time)>>, object)
    BY WritesTwo, Pairs
<1>2. Writes(persistObjFieldsAsJSON(object)
                 \o <<StringField("UserId", object), TimeField("CreationTime", object)>>,
             ReconstituteIdentityValidationInfo, object)
    BY <1>1, WritesPersistObj, WritesConcat DEF ReconstituteIdentityValidationInfo
<1> QED BY <1>2, MethodsAre, Zenon DEF Codes, IdentityValidationInfo_asJSON

LEMMA CodesGroup ==
    ASSUME NEW object
    PROVE  Codes("Group", Group_asJSON(object), object)
<1>1. Writes(<<StringField("Description", object), ListField("UserObjIds", object)>>,
             <<Arg("Description", String), Arg("UserObjIds", Strings)>>, object)
    BY WritesTwo, Pairs
<1>2. Writes(partyFieldsAsJSON(object)
                 \o <<StringField("Description", object), ListField("UserObjIds", object)>>,
             ReconstituteGroup, object)
    BY <1>1, WritesParty, WritesConcat DEF ReconstituteGroup
<1> QED BY <1>2, MethodsAre, Zenon DEF Codes, Group_asJSON

LEMMA CodesUser ==
    ASSUME NEW object
    PROVE  Codes("User", User_asJSON(object), object)
<1> DEFINE strings == <<"UserId", "DefaultRepoId", "EmailAddress">>
           lists   == <<"GroupIds", "MostRecentLoginAttempts", "EventIds">>
<1>1. PICK party, first, second, third :
          /\ party = partyFieldsAsJSON(object)
          /\ first = StringFields(strings, object)
          /\ second = <<BoolField("EmailIsVerified", object),
                        Field("PasswordHash", ByteArrayAsJSON(object["PasswordHash"]))>>
          /\ third = ListFields(lists, object)
    OBVIOUS
<1>2. PICK formals1, formals2, formals3 :
          /\ formals1 = Args(strings, String)
          /\ formals2 = <<Arg("EmailIsVerified", Bool), Arg("PasswordHash", ListOf(Byte))>>
          /\ formals3 = Args(lists, Strings)
    OBVIOUS
<1>3. Writes(party, ReconstituteParty, object)
    BY <1>1, WritesParty
<1>4. Writes(first, formals1, object)
    BY <1>1, <1>2, WritesStringFields, SeqThree
<1>5. Writes(second, formals2, object)
    BY <1>1, <1>2, WritesTwo, Pairs
<1>6. Writes(third, formals3, object)
    BY <1>1, <1>2, WritesListFields, SeqThree
<1>7. Writes(((party \o first) \o second) \o third,
             ((ReconstituteParty \o formals1) \o formals2) \o formals3, object)
    BY <1>3, <1>4, <1>5, <1>6, WritesConcat
<1>8. /\ User_asJSON(object) = Named("User", ((party \o first) \o second) \o third)
      /\ ReconstituteUser = ((ReconstituteParty \o formals1) \o formals2) \o formals3
    BY <1>1, <1>2, Zenon DEF User_asJSON, ReconstituteUser
<1> QED BY <1>7, <1>8, MethodsAre, Zenon DEF Codes

LEMMA CodesACLEntry ==
    ASSUME NEW object
    PROVE  Codes("ACLEntry", ACLEntry_asJSON(object), object)
<1> DEFINE strings == <<"ResourceId", "PartyId">>
<1>1. PICK base, first, second :
          /\ base = persistObjFieldsAsJSON(object)
          /\ first = StringFields(strings, object)
          /\ second = <<BoolsField("PermissionMask", object)>>
    OBVIOUS
<1>2. PICK formals1, formals2 :
          /\ formals1 = Args(strings, String)
          /\ formals2 = <<Arg("PermissionMask", ListOf(Bool))>>
    OBVIOUS
<1>3. Writes(base, ReconstitutePersistObj, object)
    BY <1>1, WritesPersistObj
<1>4. Writes(first, formals1, object)
    BY <1>1, <1>2, WritesStringFields, SeqTwo
<1>5. Writes(second, formals2, object)
    BY <1>1, <1>2, WritesOne, Pairs
<1>6. Writes((base \o first) \o second, (ReconstitutePersistObj \o formals1) \o formals2, object)
    BY <1>3, <1>4, <1>5, WritesConcat
<1>7. /\ ACLEntry_asJSON(object) = Named("ACLEntry", (base \o first) \o second)
      /\ ReconstituteACLEntry = (ReconstitutePersistObj \o formals1) \o formals2
    BY <1>1, <1>2, Zenon DEF ACLEntry_asJSON, ReconstituteACLEntry, BoolsField
<1> QED BY <1>6, <1>7, MethodsAre, Zenon DEF Codes

LEMMA CodesRealm ==
    ASSUME NEW object
    PROVE  Codes("Realm", Realm_asJSON(object), object)
<1> DEFINE strings == <<"AdminUserId", "OrgFullName">>
           lists   == <<"UserObjIds", "GroupIds", "RepoIds">>
           last    == <<"FileDirectory">>
<1>1. PICK base, first, second, third :
          /\ base = resourceFieldsAsJSON(object)
          /\ first = StringFields(strings, object)
          /\ second = ListFields(lists, object)
          /\ third = StringFields(last, object)
    OBVIOUS
<1>2. PICK formals1, formals2, formals3 :
          /\ formals1 = Args(strings, String)
          /\ formals2 = Args(lists, Strings)
          /\ formals3 = Args(last, String)
    OBVIOUS
<1>3. Writes(base, ReconstituteResource, object)
    BY <1>1, WritesResource
<1>4. Writes(first, formals1, object)
    BY <1>1, <1>2, WritesStringFields, SeqTwo
<1>5. Writes(second, formals2, object)
    BY <1>1, <1>2, WritesListFields, SeqThree
<1>6. Writes(third, formals3, object)
    BY <1>1, <1>2, WritesStringFields, SeqOne
<1>7. Writes(((base \o first) \o second) \o third,
             ((ReconstituteResource \o formals1) \o formals2) \o formals3, object)
    BY <1>3, <1>4, <1>5, <1>6, WritesConcat
<1>8. /\ Realm_asJSON(object) = Named("Realm", ((base \o first) \o second) \o third)
      /\ ReconstituteRealm = ((ReconstituteResource \o formals1) \o formals2) \o formals3
    BY <1>1, <1>2, Zenon DEF Realm_asJSON, ReconstituteRealm
<1> QED BY <1>7, <1>8, MethodsAre, Zenon DEF Codes

LEMMA CodesRepo ==
    ASSUME NEW object
    PROVE  Codes("Repo", Repo_asJSON(object), object)
<1> DEFINE lists == <<"DefaultUserIds", "DockerfileIds", "DockerImageIds", "ScanConfigIds",
                      "FlagIds">>
           last  == <<"FileDirectory">>
<1>1. PICK base, first, second :
          /\ base = resourceFieldsAsJSON(object)
          /\ first = ListFields(lists, object)
          /\ second = StringFields(last, object)
    OBVIOUS
<1>2. PICK formals1, formals2 :
          /\ formals1 = Args(lists, Strings)
          /\ formals2 = Args(last, String)
    OBVIOUS
<1>3. Writes(base, ReconstituteResource, object)
    BY <1>1, WritesResource
<1>4. Writes(first, formals1, object)
    BY <1>1, <1>2, WritesListFields, SeqFive
<1>5. Writes(second, formals2, object)
    BY <1>1, <1>2, WritesStringFields, SeqOne
<1>6. Writes((base \o first) \o second, (ReconstituteResource \o formals1) \o formals2, object)
    BY <1>3, <1>4, <1>5, WritesConcat
<1>7. /\ Repo_asJSON(object) = Named("Repo", (base \o first) \o second)
      /\ ReconstituteRepo = (ReconstituteResource \o formals1) \o formals2
    BY <1>1, <1>2, Zenon DEF Repo_asJSON, ReconstituteRepo
<1> QED BY <1>6, <1>7, MethodsAre, Zenon DEF Codes

LEMMA CodesDockerfile ==
    ASSUME NEW object
    PROVE  Codes("Dockerfile", Dockerfile_asJSON(object), object)
<1>1. Writes(<<StringField("FilePath", object), ListField("DockerfileExecEventIds", object)>>,
             <<Arg("FilePath", String), Arg("DockerfileExecEventIds", Strings)>>, object)
    BY WritesTwo, Pairs
<1>2. Writes(resourceFieldsAsJSON(object)
                 \o <<StringField("FilePath", object),
                      ListField("DockerfileExecEventIds", object)>>,
             ReconstituteDockerfile, object)
    BY <1>1, WritesResource, WritesConcat DEF ReconstituteDockerfile
<1> QED BY <1>2, MethodsAre, Zenon DEF Codes, Dockerfile_asJSON

LEMMA CodesDockerImage ==
    ASSUME NEW object
    PROVE  Codes("DockerImage", DockerImage_asJSON(object), object)
<1>1. /\ Writes(<<ListField("VersionIds", object)>>, <<Arg("VersionIds", Strings)>>, object)
      /\ Writes(<<ListField("ScanConfigsToUse", object)>>,
                <<Arg("ScanConfigsToUse", Strings)>>, object)
    BY WritesOne, Pairs
<1>2. Writes(imageFieldsAsJSON(object), ReconstituteImage, object)
    BY <1>1, WritesResource, WritesConcat DEF imageFieldsAsJSON, ReconstituteImage
<1>3. Writes(imageFieldsAsJSON(object) \o <<ListField("ScanConfigsToUse", object)>>,
             ReconstituteDockerImage, object)
    BY <1>1, <1>2, WritesConcat DEF ReconstituteDockerImage
<1> QED BY <1>3, MethodsAre, Zenon DEF Codes, DockerImage_asJSON

LEMMA CodesScanConfig ==
    ASSUME NEW object
    PROVE  Codes("ScanConfig", ScanConfig_asJSON(object), object)
<1> DEFINE strings == <<"SuccessExpression", "ProviderName">>
           lists   == <<"ScanEventIds", "DockerImageIdsThatUse">>
<1>1. PICK base, first, second, third :
          /\ base = resourceFieldsAsJSON(object)
          /\ first = StringFields(strings, object)
          /\ second = <<ListField("ParameterValueIds", object), StringField("FlagId", object)>>
          /\ third = ListFields(lists, object)
    OBVIOUS
<1>2. PICK formals1, formals2, formals3 :
          /\ formals1 = Args(strings, String)
          /\ formals2 = <<Arg("ParameterValueIds", Strings), Arg("FlagId", String)>>
          /\ formals3 = Args(lists, Strings)
    OBVIOUS
<1>3. Writes(base, ReconstituteResource, object)
    BY <1>1, WritesResource
<1>4. Writes(first, formals1, object)
    BY <1>1, <1>2, WritesStringFields, SeqTwo
<1>5. Writes(second, formals2, object)
    BY <1>1, <1>2, WritesTwo, Pairs
<1>6. Writes(third, formals3, object)
    BY <1>1, <1>2, WritesListFields, SeqTwo
<1>7. Writes(((base \o first) \o second) \o third,
             ((ReconstituteResource \o formals1) \o formals2) \o formals3, object)
    BY <1>3, <1>4, <1>5, <1>6, WritesConcat
<1>8. /\ ScanConfig_asJSON(object) = Named("ScanConfig", ((base \o first) \o second) \o third)
      /\ ReconstituteScanConfig = ((ReconstituteResource \o formals1) \o formals2) \o formals3
    BY <1>1, <1>2, Zenon DEF ScanConfig_asJSON, ReconstituteScanConfig
<1> QED BY <1>7, <1>8, MethodsAre, Zenon DEF Codes

LEMMA CodesFlag ==
    ASSUME NEW object
    PROVE  Codes("Flag", Flag_asJSON(object), object)
<1>1. Writes(<<StringField("SuccessImagePath", object), ListField("UsedByScanConfigIds", object)>>,
             <<Arg("SuccessImagePath", String), Arg("UsedByScanConfigIds", Strings)>>, object)
    BY WritesTwo, Pairs
<1>2. Writes(resourceFieldsAsJSON(object)
                 \o <<StringField("SuccessImagePath", object),
                      ListField("UsedByScanConfigIds", object)>>,
             ReconstituteFlag, object)
    BY <1>1, WritesResource, WritesConcat DEF ReconstituteFlag
<1> QED BY <1>2, MethodsAre, Zenon DEF Codes, Flag_asJSON

\* The values with which the method is called.
LEMMA ValuesGiven ==
    ASSUME NEW object, NEW fields, NEW formals, Writes(fields, formals, object),
           NEW n \in Nat, n = Len(formals), \A i \in 1 .. n : SetTo(formals[i], object)
    PROVE  \E values : /\ IsSeq(values) /\ Len(values) = n
                       /\ \A i \in 1 .. n : Gives(fields[i], formals[i], object, values[i])
<1>1. \A i \in 1 .. n : \E value : Gives(fields[i], formals[i], object, value)
    BY DEF Writes, Pair, Written
<1>2. PICK values :
          values = [i \in 1 .. n |-> CHOOSE value : Gives(fields[i], formals[i], object, value)]
    OBVIOUS
<1>3. values = [i \in 1 .. n |-> values[i]]
    BY <1>2
<1>4. IsSeq(values) /\ Len(values) = n
    BY <1>3, SeqFunction
<1>5. ASSUME NEW i \in 1 .. n PROVE Gives(fields[i], formals[i], object, values[i])
  <2>1. values[i] = CHOOSE value : Gives(fields[i], formals[i], object, value)
      BY <1>2
  <2> QED BY <1>1, <2>1, Zenon
<1> QED BY <1>4, <1>5

\* The fields of the object that are arguments.
Made(formals, object) == [f \in {formals[i].field : i \in DOMAIN formals} |-> object[f]]

\* The method makes the object of them.
LEMMA FieldsGiven ==
    ASSUME NEW typeName, typeName # "ScanEvent", NEW object,
           NEW fields, NEW formals, NEW values, NEW n \in Nat, DOMAIN formals = 1 .. n,
           \A i \in 1 .. n : Gives(fields[i], formals[i], object, values[i])
    PROVE  Call(typeName, formals, values) = Outcome("object", Made(formals, object))
<1> DEFINE names    == {formals[i].field : i \in DOMAIN formals}
           Place(f) == CHOOSE j \in DOMAIN formals : formals[j].field = f
           Given(f) == IF IsList(formals[Place(f)].type)
                           THEN Convert(values[Place(f)], formals[Place(f)].type)
                           ELSE values[Place(f)].content
<1>1. ASSUME NEW f \in names PROVE Given(f) = object[f]
  <2>1. \E j \in DOMAIN formals : formals[j].field = f
      OBVIOUS
  <2>2. PICK i : i = Place(f)
      OBVIOUS
  <2>3. i \in 1 .. n /\ formals[i].field = f
      BY <2>1, <2>2, Zenon
  <2>4. Gives(fields[i], formals[i], object, values[i])
      BY <2>3
  <2>5. Given(f) = IF IsList(formals[i].type) THEN Convert(values[i], formals[i].type)
                                              ELSE values[i].content
      BY <2>2
  <2> QED BY <2>3, <2>4, <2>5, Zenon DEF Gives
<1>2. Call(typeName, formals, values) = Outcome("object", [f \in names |-> Given(f)])
    BY Zenon DEF Call
<1> HIDE DEF Given
<1>3. [f \in names |-> Given(f)] = [f \in names |-> object[f]]
    BY <1>1
<1> QED BY <1>2, <1>3, Zenon DEF Made

\* What was written under the name of a type is made the object again, with
\* the fields that are arguments of its method.
LEMMA CodedRead ==
    ASSUME NEW typeName, IsName(typeName), typeName \in DOMAIN MethodByName,
           typeName # "ScanEvent",
           NEW formals, formals = MethodByName[typeName], formals # <<>>,
           NEW object, NEW text, Codes(typeName, text, object),
           \A i \in DOMAIN formals : SetTo(formals[i], object)
    PROVE  ReconstituteObject(text) = Outcome("object", Made(formals, object))
<1>1. PICK fields : text = Named(typeName, fields) /\ Writes(fields, formals, object)
    BY DEF Codes
<1>2. PICK n \in Nat \ {0} : /\ n = Len(formals) /\ DOMAIN formals = 1 .. n
                             /\ n = Len(fields) /\ IsSeq(fields)
  <2>1. IsSeq(formals) /\ IsSeq(fields) /\ Len(fields) = Len(formals)
      BY <1>1 DEF Writes
  <2>2. Len(formals) \in Nat /\ DOMAIN formals = 1 .. Len(formals) /\ Len(formals) # 0
      BY <2>1, SeqLen
  <2> QED BY <2>1, <2>2
<1>3. PICK values : /\ IsSeq(values) /\ Len(values) = n
                    /\ \A i \in 1 .. n : Gives(fields[i], formals[i], object, values[i])
    BY <1>1, <1>2, ValuesGiven
<1>4. FieldsReadAs(n, fields, values)
    BY <1>3 DEF FieldsReadAs, Gives
<1>5. ReconstituteObject(text) = Reconstitute(typeName, formals, values)
    BY <1>1, <1>2, <1>4, NamedRead
<1>6. Reconstitute(typeName, formals, values) = Call(typeName, formals, values)
  <2>1. DOMAIN values = 1 .. n
      BY <1>3, SeqLen
  <2>2. {i \in DOMAIN values : ~Fits(values[i], formals[i])} = {}
      BY <1>3, <2>1 DEF Gives
  <2> QED BY <1>2, <1>3, <2>2, Zenon DEF Reconstitute
<1>7. Call(typeName, formals, values) = Outcome("object", Made(formals, object))
  <2>1. n \in Nat
      OBVIOUS
  <2>2. \A i \in 1 .. n : Gives(fields[i], formals[i], object, values[i])
      BY <1>3
  <2> QED BY <1>2, <2>1, <2>2, FieldsGiven
<1> QED BY <1>5, <1>6, <1>7, Zenon

(***************************************************************************)
(* The fields of each type.                                                *)
(***************************************************************************)

\* Fields of the same name have the same type in every object.
TypeOf(field) ==
    IF field \in {"CreationTime", "CreationDate", "When"} THEN Time
    ELSE IF field \in {"IsActive", "EmailIsVerified"} THEN Bool
    ELSE IF field \in {"PasswordHash", "Digest", "Signature"} THEN ListOf(Byte)
    ELSE IF field = "PermissionMask" THEN ListOf(Bool)
    ELSE IF field = "Result" THEN ListOf(Strings)
    ELSE IF field \in {"ACLEntryIds", "ActualParameterValueIds", "DefaultUserIds",
                       "DockerImageIds", "DockerImageIdsThatUse", "DockerfileExecEventIds",
                       "DockerfileIds", "EventIds", "FlagIds", "GroupIds",
                       "MostRecentLoginAttempts", "ParameterValueIds", "RepoIds",
                       "ScanConfigIds", "ScanConfigsToUse", "ScanEventIds",
                       "UsedByScanConfigIds", "UserObjIds", "VersionIds"} THEN Strings
    ELSE String

\* A field and its type.
Has(field, type_) == IsName(field) /\ TypeOf(field) = type_

\* All the fields of objects.
LEMMA SimpleFields ==
    /\ Has("Id", String) /\ Has("UserId", String) /\ Has("Name", String)
    /\ Has("Description", String) /\ Has("ParentId", String) /\ Has("RealmId", String)
    /\ Has("DefaultRepoId", String) /\ Has("EmailAddress", String)
    /\ Has("ResourceId", String) /\ Has("PartyId", String) /\ Has("AdminUserId", String)
    /\ Has("OrgFullName", String) /\ Has("FileDirectory", String) /\ Has("FilePath", String)
    /\ Has("Version", String) /\ Has("ImageObjId", String)
    /\ Has("ImageCreationEventId", String) /\ Has("DockerBuildOutput", String)
    /\ Has("StringValue", String) /\ Has("SuccessExpression", String)
    /\ Has("ProviderName", String) /\ Has("FlagId", String) /\ Has("ConfigId", String)
    /\ Has("SuccessImagePath", String) /\ Has("UserObjId", String)
    /\ Has("ScanConfigId", String) /\ Has("DockerImageVersionId", String)
    /\ Has("Score", String) /\ Has("ImageVersionId", String) /\ Has("DockerfileId", String)
    /\ Has("DockerfileContent", String)
    /\ Has("CreationTime", Time) /\ Has("CreationDate", Time) /\ Has("When", Time)
    /\ Has("IsActive", Bool) /\ Has("EmailIsVerified", Bool)
BY DEF Has, TypeOf, IsName, Quote

LEMMA ListsOfFields ==
    /\ Has("ACLEntryIds", Strings) /\ Has("ActualParameterValueIds", Strings)
    /\ Has("DefaultUserIds", Strings) /\ Has("DockerImageIds", Strings)
    /\ Has("DockerImageIdsThatUse", Strings) /\ Has("DockerfileExecEventIds", Strings)
    /\ Has("DockerfileIds", Strings) /\ Has("EventIds", Strings) /\ Has("FlagIds", Strings)
    /\ Has("GroupIds", Strings) /\ Has("MostRecentLoginAttempts", Strings)
    /\ Has("ParameterValueIds", Strings) /\ Has("RepoIds", Strings)
    /\ Has("ScanConfigIds", Strings) /\ Has("ScanConfigsToUse", Strings)
    /\ Has("ScanEventIds", Strings) /\ Has("UsedByScanConfigIds", Strings)
    /\ Has("UserObjIds", Strings) /\ Has("VersionIds", Strings)
    /\ Has("PasswordHash", ListOf(Byte)) /\ Has("Digest", ListOf(Byte))
    /\ Has("Signature", ListOf(Byte))
    /\ Has("PermissionMask", ListOf(Bool)) /\ Has("Result", ListOf(Strings))
BY DEF Has, TypeOf, IsName, Quote

\* Formal arguments with the types of their fields.
Typed(formals) ==
    /\ IsSeq(formals) /\ formals # <<>>
    /\ \A i \in 1 .. Len(formals) : Has(formals[i].field, formals[i].type)

\* Parts may be put together.
LEMMA TypedConcat ==
    ASSUME NEW formals1, Typed(formals1), NEW formals2, Typed(formals2)
    PROVE  Typed(formals1 \o formals2)
<1>1. PICK m \in Nat \ {0}, n \in Nat \ {0} : m = Len(formals1) /\ n = Len(formals2)
    BY SeqLen DEF Typed
<1>2. PICK formals : formals = formals1 \o formals2
    OBVIOUS
<1>3. /\ IsSeq(formals) /\ Len(formals) = m + n
      /\ \A i \in 1 .. m : formals[i] = formals1[i]
      /\ \A i \in 1 .. n : formals[m + i] = formals2[i]
  <2>1. IsSeq(formals1) /\ IsSeq(formals2)
      BY DEF Typed
  <2>2. /\ IsSeq(formals1 \o formals2) /\ Len(formals1 \o formals2) = Len(formals1) + Len(formals2)
        /\ \A i \in 1 .. Len(formals1) : (formals1 \o formals2)[i] = formals1[i]
        /\ \A i \in 1 .. Len(formals2) : (formals1 \o formals2)[Len(formals1) + i] = formals2[i]
      BY ONLY <2>1, SeqConcat
  <2> QED BY <1>1, <1>2, <2>2
<1>4. ASSUME NEW i \in 1 .. m + n PROVE Has(formals[i].field, formals[i].type)
  <2>1. CASE i \in 1 .. m
      BY <1>1, <1>3, <2>1 DEF Typed
  <2>2. CASE i \notin 1 .. m
    <3>1. PICK j \in 1 .. n : i = m + j
      <4>1. i - m \in 1 .. n /\ i = m + (i - m)
          BY <2>2
      <4> QED BY <4>1
    <3>2. formals[i] = formals2[j]
        BY <1>3, <3>1
    <3> QED BY <1>1, <3>2 DEF Typed
  <2> QED BY <2>1, <2>2
<1>5. formals # <<>>
    BY <1>3, SeqLen
<1> QED BY <1>2, <1>3, <1>4, <1>5 DEF Typed

\* Arguments of one type.
LEMMA TypedArgs ==
    ASSUME NEW names, IsSeq(names), names # <<>>, NEW type_,
           \A i \in 1 .. Len(names) : Has(names[i], type_)
    PROVE  Typed(Args(names, type_))
<1>1. PICK n \in Nat \ {0} : n = Len(names) /\ DOMAIN names = 1 .. n
    BY SeqLen
<1>2. PICK formals : formals = Args(names, type_)
    OBVIOUS
<1>3. formals = [i \in DOMAIN names |-> Arg(names[i], type_)]
    BY <1>2 DEF Args
<1>4. IsSeq(formals) /\ Len(formals) = n
    BY <1>1, <1>3, Elementwise
<1>5. ASSUME NEW i \in 1 .. n PROVE Has(formals[i].field, formals[i].type)
  <2>1. formals[i] = Arg(names[i], type_)
      BY <1>1, <1>3
  <2>2. formals[i].field = names[i] /\ formals[i].type = type_
      BY <2>1, ArgFields
  <2> QED BY <1>1, <2>2
<1>6. formals # <<>>
    BY <1>4, SeqLen
<1> QED BY <1>2, <1>4, <1>5, <1>6 DEF Typed

\* Arguments that are listed one by one.
LEMMA TypedOne ==
    ASSUME NEW a, NEW typeA, Has(a, typeA)
    PROVE  Typed(<<Arg(a, typeA)>>)
<1>1. PICK argA : argA = Arg(a, typeA)
    OBVIOUS
<1>2. PICK formals : formals = <<argA>>
    OBVIOUS
<1>3. IsSeq(formals)
    BY <1>2, SeqOne
<1>4. Len(formals) = 1 /\ formals[1] = argA
    BY <1>2
<1>5. Has(argA.field, argA.type)
    BY <1>1, ArgFields
<1>6. \A i \in 1 .. 1 : Has(formals[i].field, formals[i].type)
  <2>1. \A i \in 1 .. 1 : i = 1
      OBVIOUS
  <2> QED BY <1>4, <1>5, <2>1, Zenon
<1>7. formals # <<>>
    BY <1>3, <1>4, SeqLen
<1> QED BY <1>1, <1>2, <1>3, <1>4, <1>6, <1>7 DEF Typed

LEMMA TypedTwo ==
    ASSUME NEW a, NEW typeA, Has(a, typeA),
           NEW b, NEW typeB, Has(b, typeB)
    PROVE  Typed(<<Arg(a, typeA), Arg(b, typeB)>>)
<1>1. PICK argA, argB :
          /\ argA = Arg(a, typeA)
          /\ argB = Arg(b, typeB)
    OBVIOUS
<1>2. PICK formals : formals = <<argA, argB>>
    OBVIOUS
<1>3. IsSeq(formals)
    BY <1>2, SeqTwo
<1>4. Len(formals) = 2 /\ formals[1] = argA /\ formals[2] = argB
    BY <1>2
<1>5. /\ Has(argA.field, argA.type)
      /\ Has(argB.field, argB.type)
    BY <1>1, ArgFields
<1>6. \A i \in 1 .. 2 : Has(formals[i].field, formals[i].type)
  <2>1. \A i \in 1 .. 2 : i = 1 \/ i = 2
      OBVIOUS
  <2> QED BY <1>4, <1>5, <2>1, Zenon
<1>7. formals # <<>>
    BY <1>3, <1>4, SeqLen
<1> QED BY <1>1, <1>2, <1>3, <1>4, <1>6, <1>7 DEF Typed

LEMMA TypedThree ==
    ASSUME NEW a, NEW typeA, Has(a, typeA),
           NEW b, NEW typeB, Has(b, typeB),
           NEW c, NEW typeC, Has(c, typeC)
    PROVE  Typed(<<Arg(a, typeA), Arg(b, typeB), Arg(c, typeC)>>)
<1>1. PICK argA, argB, argC :
          /\ argA = Arg(a, typeA)
          /\ argB = Arg(b, typeB)
          /\ argC = Arg(c, typeC)
    OBVIOUS
<1>2. PICK formals : formals = <<argA, argB, argC>>
    OBVIOUS
<1>3. IsSeq(formals)
    BY <1>2, SeqThree
<1>4. Len(formals) = 3 /\ formals[1] = argA /\ formals[2] = argB /\ formals[3] = argC
    BY <1>2
<1>5. /\ Has(argA.field, argA.type)
      /\ Has(argB.field, argB.type)
      /\ Has(argC.field, argC.type)
    BY <1>1, ArgFields
<1>6. \A i \in 1 .. 3 : Has(formals[i].field, formals[i].type)
  <2>1. \A i \in 1 .. 3 : i = 1 \/ i = 2 \/ i = 3
      OBVIOUS
  <2> QED BY <1>4, <1>5, <2>1, Zenon
<1>7. formals # <<>>
    BY <1>3, <1>4, SeqLen
<1> QED BY <1>1, <1>2, <1>3, <1>4, <1>6, <1>7 DEF Typed

LEMMA TypedFive ==
    ASSUME NEW a, NEW typeA, Has(a, typeA),
           NEW b, NEW typeB, Has(b, typeB),
           NEW c, NEW typeC, Has(c, typeC),
           NEW d, NEW typeD, Has(d, typeD),
           NEW e, NEW typeE, Has(e, typeE)
    PROVE  Typed(<<Arg(a, typeA), Arg(b, typeB), Arg(c, typeC), Arg(d, typeD),
                   Arg(e, typeE)>>)
<1>1. PICK argA, argB, argC, argD, argE :
          /\ argA = Arg(a, typeA)
          /\ argB = Arg(b, typeB)
          /\ argC = Arg(c, typeC)
          /\ argD = Arg(d, typeD)
          /\ argE = Arg(e, typeE)
    OBVIOUS
<1>2. PICK formals : formals = <<argA, argB, argC, argD, argE>>
    OBVIOUS
<1>3. IsSeq(formals)
    BY <1>2, SeqFive
<1>4. /\ Len(formals) = 5
      /\ formals[1] = argA /\ formals[2] = argB /\ formals[3] = argC /\ formals[4] = argD
      /\ formals[5] = argE
    BY <1>2
<1>5. /\ Has(argA.field, argA.type)
      /\ Has(argB.field, argB.type)
      /\ Has(argC.field, argC.type)
      /\ Has(argD.field, argD.type)
      /\ Has(argE.field, argE.type)
    BY <1>1, ArgFields
<1>6. \A i \in 1 .. 5 : Has(formals[i].field, formals[i].type)
  <2>1. \A i \in 1 .. 5 : i = 1 \/ i = 2 \/ i = 3 \/ i = 4 \/ i = 5
      OBVIOUS
  <2> QED BY <1>4, <1>5, <2>1, Zenon
<1>7. formals # <<>>
    BY <1>3, <1>4, SeqLen
<1> QED BY <1>1, <1>2, <1>3, <1>4, <1>6, <1>7 DEF Typed

\* Arguments of one type that are listed one by one.
LEMMA TypedArgsOne ==
    ASSUME NEW a, NEW type_, Has(a, type_)
    PROVE  Typed(Args(<<a>>, type_))
<1>1. PICK names : names = <<a>>
    OBVIOUS
<1>2. IsSeq(names)
    BY <1>1, SeqOne
<1>3. Len(names) = 1 /\ names[1] = a
    BY <1>1
<1>4. \A i \in 1 .. 1 : Has(names[i], type_)
  <2>1. \A i \in 1 .. 1 : i = 1
      OBVIOUS
  <2> QED BY <1>3, <2>1, Zenon
<1>5. names # <<>>
    BY <1>2, <1>3, SeqLen
<1> QED BY <1>1, <1>2, <1>3, <1>4, <1>5, TypedArgs

LEMMA TypedArgsTwo ==
    ASSUME NEW a, NEW b, NEW type_, Has(a, type_), Has(b, type_)
    PROVE  Typed(Args(<<a, b>>, type_))
<1>1. PICK names : names = <<a, b>>
    OBVIOUS
<1>2. IsSeq(names)
    BY <1>1, SeqTwo
<1>3. Len(names) = 2 /\ names[1] = a /\ names[2] = b
    BY <1>1
<1>4. \A i \in 1 .. 2 : Has(names[i], type_)
  <2>1. \A i \in 1 .. 2 : i = 1 \/ i = 2
      OBVIOUS
  <2> QED BY <1>3, <2>1, Zenon
<1>5. names # <<>>
    BY <1>2, <1>3, SeqLen
<1> QED BY <1>1, <1>2, <1>3, <1>4, <1>5, TypedArgs

LEMMA TypedArgsThree ==
    ASSUME NEW a, NEW b, NEW c, NEW type_, Has(a, type_), Has(b, type_), Has(c, type_)
    PROVE  Typed(Args(<<a, b, c>>, type_))
<1>1. PICK names : names = <<a, b, c>>
    OBVIOUS
<1>2. IsSeq(names)
    BY <1>1, SeqThree
<1>3. Len(names) = 3 /\ names[1] = a /\ names[2] = b /\ names[3] = c
    BY <1>1
<1>4. \A i \in 1 .. 3 : Has(names[i], type_)
  <2>1. \A i \in 1 .. 3 : i = 1 \/ i = 2 \/ i = 3
      OBVIOUS
  <2> QED BY <1>3, <2>1, Zenon
<1>5. names # <<>>
    BY <1>2, <1>3, SeqLen
<1> QED BY <1>1, <1>2, <1>3, <1>4, <1>5, TypedArgs

LEMMA TypedArgsFive ==
    ASSUME NEW a, NEW b, NEW c, NEW d, NEW e, NEW type_,
           Has(a, type_), Has(b, type_), Has(c, type_), Has(d, type_), Has(e, type_)
    PROVE  Typed(Args(<<a, b, c, d, e>>, type_))
<1>1. PICK names : names = <<a, b, c, d, e>>
    OBVIOUS
<1>2. IsSeq(names)
    BY <1>1, SeqFive
<1>3. /\ Len(names) = 5
      /\ names[1] = a /\ names[2] = b /\ names[3] = c /\ names[4] = d /\ names[5] = e
    BY <1>1
<1>4. \A i \in 1 .. 5 : Has(names[i], type_)
  <2>1. \A i \in 1 .. 5 : i = 1 \/ i = 2 \/ i = 3 \/ i = 4 \/ i = 5
      OBVIOUS
  <2> QED BY <1>3, <2>1, Zenon
<1>5. names # <<>>
    BY <1>2, <1>3, SeqLen
<1> QED BY <1>1, <1>2, <1>3, <1>4, <1>5, TypedArgs

\* The methods that types share.
LEMMA TypedShared ==
    /\ Typed(ReconstitutePersistObj) /\ Typed(ReconstituteACL) /\ Typed(ReconstituteResource)
    /\ Typed(ReconstituteParty) /\ Typed(ReconstituteImage)
    /\ Typed(ReconstituteParameterValue) /\ Typed(ReconstituteEvent)
    /\ Typed(ReconstituteImageCreationEvent)
<1>1. Typed(ReconstitutePersistObj)
    BY SimpleFields, TypedArgsOne DEF ReconstitutePersistObj
<1>2. Typed(ReconstituteACL)
  <2>1. Typed(<<Arg("ACLEntryIds", Strings)>>)
      BY ListsOfFields, TypedOne
  <2> QED BY <1>1, <2>1, TypedConcat DEF ReconstituteACL
<1>3. Typed(ReconstituteResource)
  <2>1. /\ Typed(Args(<<"Name", "Description", "ParentId">>, String))
        /\ Typed(<<Arg("CreationTime", Time)>>)
      BY SimpleFields, TypedArgsThree, TypedOne
  <2> QED BY <1>2, <2>1, TypedConcat DEF ReconstituteResource
<1>4. Typed(ReconstituteParty)
  <2>1. Typed(<<Arg("IsActive", Bool), Arg("Name", String), Arg("CreationTime", Time),
                Arg("RealmId", String), Arg("ACLEntryIds", Strings)>>)
      BY SimpleFields, ListsOfFields, TypedFive
  <2> QED BY <1>1, <2>1, TypedConcat DEF ReconstituteParty
<1>5. Typed(ReconstituteImage)
  <2>1. Typed(<<Arg("VersionIds", Strings)>>)
      BY ListsOfFields, TypedOne
  <2> QED BY <1>3, <2>1, TypedConcat DEF ReconstituteImage
<1>6. Typed(ReconstituteParameterValue)
  <2>1. Typed(Args(<<"Name", "StringValue">>, String))
      BY SimpleFields, TypedArgsTwo
  <2> QED BY <1>1, <2>1, TypedConcat DEF ReconstituteParameterValue
<1>7. Typed(ReconstituteEvent)
  <2>1. Typed(<<Arg("When", Time), Arg("UserObjId", String)>>)
      BY SimpleFields, TypedTwo
  <2> QED BY <1>1, <2>1, TypedConcat DEF ReconstituteEvent
<1>8. Typed(ReconstituteImageCreationEvent)
  <2>1. Typed(Args(<<"ImageVersionId">>, String))
      BY SimpleFields, TypedArgsOne
  <2> QED BY <1>7, <2>1, TypedConcat DEF ReconstituteImageCreationEvent
<1> QED BY <1>1, <1>2, <1>3, <1>4, <1>5, <1>6, <1>7, <1>8

\* The methods of the types.
LEMMA TypedParties ==
    /\ Typed(ReconstituteIdentityValidationInfo) /\ Typed(ReconstituteGroup)
    /\ Typed(ReconstituteUser) /\ Typed(ReconstituteACLEntry)
<1>1. Typed(ReconstituteIdentityValidationInfo)
  <2>1. Typed(<<Arg("UserId", String), Arg("CreationTime", Time)>>)
      BY SimpleFields, TypedTwo
  <2> QED BY <2>1, TypedShared, TypedConcat DEF ReconstituteIdentityValidationInfo
<1>2. Typed(ReconstituteGroup)
  <2>1. Typed(<<Arg("Description", String), Arg("UserObjIds", Strings)>>)
      BY SimpleFields, ListsOfFields, TypedTwo
  <2> QED BY <2>1, TypedShared, TypedConcat DEF ReconstituteGroup
<1>3. Typed(ReconstituteUser)
  <2>1. Typed(Args(<<"UserId", "DefaultRepoId", "EmailAddress">>, String))
      BY SimpleFields, TypedArgsThree
  <2>2. Typed(<<Arg("EmailIsVerified", Bool), Arg("PasswordHash", ListOf(Byte))>>)
      BY SimpleFields, ListsOfFields, TypedTwo
  <2>3. Typed(Args(<<"GroupIds", "MostRecentLoginAttempts", "EventIds">>, Strings))
      BY ListsOfFields, TypedArgsThree
  <2> QED BY <2>1, <2>2, <2>3, TypedShared, TypedConcat DEF ReconstituteUser
<1>4. Typed(ReconstituteACLEntry)
  <2>1. Typed(Args(<<"ResourceId", "PartyId">>, String))
      BY SimpleFields, TypedArgsTwo
  <2>2. Typed(<<Arg("PermissionMask", ListOf(Bool))>>)
      BY ListsOfFields, TypedOne
  <2> QED BY <2>1, <2>2, TypedShared, TypedConcat DEF ReconstituteACLEntry
<1> QED BY <1>1, <1>2, <1>3, <1>4

LEMMA TypedResources ==
    /\ Typed(ReconstituteRealm) /\ Typed(ReconstituteRepo) /\ Typed(ReconstituteDockerfile)
    /\ Typed(ReconstituteDockerImage) /\ Typed(ReconstituteScanConfig)
    /\ Typed(ReconstituteFlag)
<1>1. Typed(Args(<<"FileDirectory">>, String))
    BY SimpleFields, TypedArgsOne
<1>2. Typed(ReconstituteRealm)
  <2>1. Typed(Args(<<"AdminUserId", "OrgFullName">>, String))
      BY SimpleFields, TypedArgsTwo
  <2>2. Typed(Args(<<"UserObjIds", "GroupIds", "RepoIds">>, Strings))
      BY ListsOfFields, TypedArgsThree
  <2> QED BY <1>1, <2>1, <2>2, TypedShared, TypedConcat DEF ReconstituteRealm
<1>3. Typed(ReconstituteRepo)
  <2>1. Typed(Args(<<"DefaultUserIds", "DockerfileIds", "DockerImageIds", "ScanConfigIds",
                     "FlagIds">>, Strings))
      BY ListsOfFields, TypedArgsFive
  <2> QED BY <1>1, <2>1, TypedShared, TypedConcat DEF ReconstituteRepo
<1>4. Typed(ReconstituteDockerfile)
  <2>1. Typed(<<Arg("FilePath", String), Arg("DockerfileExecEventIds", Strings)>>)
      BY SimpleFields, ListsOfFields, TypedTwo
  <2> QED BY <2>1, TypedShared, TypedConcat DEF ReconstituteDockerfile
<1>5. Typed(ReconstituteDockerImage)
  <2>1. Typed(<<Arg("ScanConfigsToUse", Strings)>>)
      BY ListsOfFields, TypedOne
  <2> QED BY <2>1, TypedShared, TypedConcat DEF ReconstituteDockerImage
<1>6. Typed(ReconstituteScanConfig)
  <2>1. Typed(Args(<<"SuccessExpression", "ProviderName">>, String))
      BY SimpleFields, TypedArgsTwo
  <2>2. Typed(<<Arg("ParameterValueIds", Strings), Arg("FlagId", String)>>)
      BY SimpleFields, ListsOfFields, TypedTwo
  <2>3. Typed(Args(<<"ScanEventIds", "DockerImageIdsThatUse">>, Strings))
      BY ListsOfFields, TypedArgsTwo
  <2> QED BY <2>1, <2>2, <2>3, TypedShared, TypedConcat DEF ReconstituteScanConfig
<1>7. Typed(ReconstituteFlag)
  <2>1. Typed(<<Arg("SuccessImagePath", String), Arg("UsedByScanConfigIds", Strings)>>)
      BY SimpleFields, ListsOfFields, TypedTwo
  <2> QED BY <2>1, TypedShared, TypedConcat DEF ReconstituteFlag
<1> QED BY <1>2, <1>3, <1>4, <1>5, <1>6, <1>7

LEMMA TypedOthers ==
    /\ Typed(ReconstituteDockerImageVersion) /\ Typed(ReconstituteScanParameterValue)
    /\ Typed(ReconstituteScanEvent) /\ Typed(ReconstituteDockerfileExecEvent)
    /\ Typed(ReconstituteDockerfileExecParameterValue)
<1>1. Typed(ReconstituteDockerImageVersion)
  <2>1. Typed(Args(<<"Version", "ImageObjId">>, String))
      BY SimpleFields, TypedArgsTwo
  <2>2. Typed(<<Arg("CreationDate", Time), Arg("ImageCreationEventId", String),
                Arg("ScanEventIds", Strings)>>)
      BY SimpleFields, ListsOfFields, TypedThree
  <2>3. Typed(Args(<<"Digest", "Signature">>, ListOf(Byte)))
      BY ListsOfFields, TypedArgsTwo
  <2>4. Typed(Args(<<"DockerBuildOutput">>, String))
      BY SimpleFields, TypedArgsOne
  <2> QED BY <2>1, <2>2, <2>3, <2>4, TypedConcat DEF ReconstituteDockerImageVersion
<1>2. Typed(ReconstituteScanParameterValue)
  <2>1. Typed(Args(<<"ConfigId">>, String))
      BY SimpleFields, TypedArgsOne
  <2> QED BY <2>1, TypedShared, TypedConcat DEF ReconstituteScanParameterValue
<1>3. Typed(ReconstituteScanEvent)
  <2>1. Typed(Args(<<"ScanConfigId", "DockerImageVersionId", "ProviderName">>, String))
      BY SimpleFields, TypedArgsThree
  <2>2. Typed(<<Arg("ActualParameterValueIds", Strings), Arg("Score", String),
                Arg("Result", ListOf(Strings))>>)
      BY SimpleFields, ListsOfFields, TypedThree
  <2> QED BY <2>1, <2>2, TypedShared, TypedConcat DEF ReconstituteScanEvent
<1>4. Typed(ReconstituteDockerfileExecEvent)
  <2>1. Typed(Args(<<"DockerfileId", "DockerfileContent">>, String))
      BY SimpleFields, TypedArgsTwo
  <2> QED BY <2>1, TypedShared, TypedConcat DEF ReconstituteDockerfileExecEvent
<1>5. Typed(ReconstituteDockerfileExecParameterValue)
  <2>1. Typed(Args(<<"DockerfileId">>, String))
      BY SimpleFields, TypedArgsOne
  <2> QED BY <2>1, TypedShared, TypedConcat DEF ReconstituteDockerfileExecParameterValue
<1> QED BY <1>1, <1>2, <1>3, <1>4, <1>5

\* The types with a Reconstitute method.
TypeNames ==
    {"IdentityValidationInfo", "Group", "User", "ACLEntry", "Realm", "Repo", "Dockerfile",
     "DockerImage", "DockerImageVersion", "ScanConfig", "ScanParameterValue", "Flag",
     "ScanEvent", "DockerfileExecEvent", "DockerfileExecParameterValue"}

\* They are the names under which a method is found.
LEMMA TypesAre ==
    /\ DOMAIN MethodByName = TypeNames
    /\ \A t \in TypeNames : IsName(t)
BY DEF MethodByName, TypeNames, IsName, Quote

\* The arguments of every method have the types of their fields.
LEMMA MethodsTyped ==
    ASSUME NEW t \in TypeNames
    PROVE  Typed(MethodByName[t])
BY MethodsAre, TypedParties, TypedResources, TypedOthers DEF TypeNames

\* So have the fields that are not arguments.
LEMMA OtherFieldsAre ==
    ASSUME NEW t \in TypeNames
    PROVE  /\ OtherFields(t) = <<>> \/ Typed(OtherFields(t))
           /\ t \notin {"DockerImageVersion", "DockerfileExecEvent"} => OtherFields(t) = <<>>
<1>1. CASE t = "DockerImageVersion"
  <2>1. OtherFields(t) = <<Arg("Id", String)>>
      BY <1>1 DEF OtherFields
  <2> QED BY <1>1, <2>1, SimpleFields, TypedOne
<1>2. CASE t = "DockerfileExecEvent"
  <2>1. OtherFields(t) = <<Arg("ActualParameterValueIds", Strings)>>
      BY <1>2 DEF OtherFields
  <2> QED BY <1>2, <2>1, ListsOfFields, TypedOne
<1>3. CASE t \notin {"DockerImageVersion", "DockerfileExecEvent"}
  <2>1. OtherFields(t) = <<>>
      BY <1>3 DEF OtherFields
  <2> QED BY <2>1
<1> QED BY <1>1, <1>2, <1>3

\* All the fields of a type.
Formals(t) == MethodByName[t] \o OtherFields(t)

\* Appending nothing changes nothing.
LEMMA ConcatEmpty ==
    ASSUME NEW s, IsSeq(s)
    PROVE  s \o <<>> = s
<1>1. PICK S : s \in Seq(S)
    BY DEF IsSeq
<1> QED BY <1>1

\* All the fields of a type have their types.
LEMMA FormalsTyped ==
    ASSUME NEW t \in TypeNames
    PROVE  Typed(Formals(t))
<1>1. CASE OtherFields(t) = <<>>
  <2>1. Formals(t) = MethodByName[t] \o <<>>
      BY <1>1 DEF Formals
  <2>2. IsSeq(MethodByName[t])
      BY MethodsTyped DEF Typed
  <2> QED BY <2>1, <2>2, ConcatEmpty, MethodsTyped
<1>2. CASE Typed(OtherFields(t))
    BY <1>2, MethodsTyped, TypedConcat DEF Formals
<1> QED BY <1>1, <1>2, OtherFieldsAre

\* The fields of a type are those of its formal arguments, with their types.
LEMMA KindsAre ==
    ASSUME NEW t \in TypeNames
    PROVE  /\ DOMAIN Kinds(t) = {Formals(t)[i].field : i \in DOMAIN Formals(t)}
           /\ \A f \in DOMAIN Kinds(t) : Has(f, Kinds(t)[f])
<1>1. PICK formals : formals = Formals(t)
    OBVIOUS
<1> DEFINE names == {formals[i].field : i \in DOMAIN formals}
<1>2. Kinds(t) = [f \in names |->
                     formals[CHOOSE i \in DOMAIN formals : formals[i].field = f].type]
    BY <1>1 DEF Kinds, Formals
<1>3. \A i \in DOMAIN formals : Has(formals[i].field, formals[i].type)
    BY <1>1, FormalsTyped, SeqLen DEF Typed
<1>4. ASSUME NEW f \in names PROVE Has(f, Kinds(t)[f])
  <2>1. \E i \in DOMAIN formals : formals[i].field = f
      OBVIOUS
  <2>2. PICK i : i = CHOOSE j \in DOMAIN formals : formals[j].field = f
      OBVIOUS
  <2>3. i \in DOMAIN formals /\ formals[i].field = f
      BY <2>1, <2>2, Zenon
  <2>4. Kinds(t)[f] = formals[i].type
      BY <1>2, <2>2
  <2> QED BY <1>3, <2>3, <2>4
<1>5. DOMAIN Kinds(t) = names
    BY <1>2
<1> QED BY <1>1, <1>4, <1>5

(***************************************************************************)
(* Objects of a type.                                                      *)
(***************************************************************************)

\* The object has the fields of its type, and they are set.
ObjectOf(t, object) ==
    /\ object = [f \in DOMAIN Kinds(t) |-> object[f]]
    /\ \A f \in DOMAIN Kinds(t) : object[f] \in Contents(Kinds(t)[f])

\* An object has a value of the right type for each argument of its method.
LEMMA FieldsAreSet ==
    ASSUME NEW t \in TypeNames, NEW object, ObjectOf(t, object)
    PROVE  \A i \in DOMAIN MethodByName[t] : SetTo(MethodByName[t][i], object)
<1>1. PICK formals, method : formals = Formals(t) /\ method = MethodByName[t]
    OBVIOUS
<1>2. /\ DOMAIN method \subseteq DOMAIN formals
      /\ \A i \in DOMAIN method : formals[i] = method[i]
  <2>1. IsSeq(method) /\ IsSeq(OtherFields(t))
      BY <1>1, MethodsTyped, OtherFieldsAre, SeqEmpty DEF Typed
  <2>2. PICK others : others = OtherFields(t)
      OBVIOUS
  <2>3. formals = method \o others
      BY <1>1, <2>2 DEF Formals
  <2>4. IsSeq(others) /\ IsSeq(method)
      BY <2>1, <2>2
  <2>5. PICK m \in Nat, n \in Nat : m = Len(method) /\ n = Len(others)
      BY <2>4, SeqLen
  <2>6. /\ IsSeq(method \o others) /\ Len(method \o others) = Len(method) + Len(others)
        /\ \A i \in 1 .. Len(method) : (method \o others)[i] = method[i]
      BY ONLY <2>4, SeqConcat
  <2>7. DOMAIN method = 1 .. m /\ DOMAIN formals = 1 .. m + n
      BY <2>3, <2>4, <2>5, <2>6, SeqLen
  <2>8. \A i \in 1 .. m : i \in 1 .. m + n
      BY ONLY <2>5
  <2> QED BY <2>3, <2>5, <2>6, <2>7, <2>8
<1>3. ASSUME NEW i \in DOMAIN method PROVE SetTo(method[i], object)
  <2>1. i \in DOMAIN formals /\ formals[i] = method[i]
      BY <1>2
  <2>2. Has(formals[i].field, formals[i].type)
      BY <1>1, <2>1, FormalsTyped, SeqLen DEF Typed
  <2>3. PICK f : f = formals[i].field
      OBVIOUS
  <2>4. f \in DOMAIN Kinds(t)
      BY <1>1, <2>1, <2>3, KindsAre
  <2>5. Has(f, Kinds(t)[f])
      BY <2>4, KindsAre
  <2>6. Kinds(t)[f] = formals[i].type
      BY <2>2, <2>3, <2>5 DEF Has
  <2>7. object[f] \in Contents(formals[i].type)
      BY <2>4, <2>6 DEF ObjectOf
  <2> QED BY <2>1, <2>2, <2>3, <2>7 DEF SetTo, Has
<1> QED BY <1>1, <1>3

\* The text of every readable type is what its method takes.
LEMMA ReadableCoded ==
    ASSUME NEW t \in TypeNames \ Unreadable, NEW object
    PROVE  Codes(t, asJSON(t, object), object)
BY TextsAre, CodesIdentityValidationInfo, CodesGroup, CodesUser, CodesACLEntry, CodesRealm,
   CodesRepo, CodesDockerfile, CodesDockerImage, CodesScanConfig, CodesFlag
   DEF TypeNames, Unreadable

\* All the fields of an object of a readable type are arguments.
LEMMA ObjectMade ==
    ASSUME NEW t \in TypeNames \ Unreadable, NEW object, ObjectOf(t, object)
    PROVE  Made(MethodByName[t], object) = object
<1>1. t \in TypeNames /\ t \notin {"DockerImageVersion", "DockerfileExecEvent"}
    BY DEF Unreadable
<1>2. PICK formals : formals = MethodByName[t]
    OBVIOUS
<1>3. IsSeq(formals)
    BY <1>1, <1>2, MethodsTyped DEF Typed
<1>4. Formals(t) = formals
  <2>1. Formals(t) = formals \o <<>>
      BY <1>1, <1>2, OtherFieldsAre DEF Formals
  <2> QED BY <1>3, <2>1, ConcatEmpty
<1>5. DOMAIN Kinds(t) = {formals[i].field : i \in DOMAIN formals}
    BY <1>1, <1>4, KindsAre
<1>6. Made(formals, object) = [f \in DOMAIN Kinds(t) |-> object[f]]
    BY <1>5 DEF Made
<1> QED BY <1>2, <1>6 DEF ObjectOf

\* An object of a readable type is made again from its text.
LEMMA ReadableRead ==
    ASSUME NEW t \in TypeNames \ Unreadable, NEW object, ObjectOf(t, object)
    PROVE  ReconstituteObject(asJSON(t, object)) = Outcome("object", object)
<1>1. t \in TypeNames /\ t # "ScanEvent"
    BY DEF Unreadable
<1>2. PICK formals, text : formals = MethodByName[t] /\ text = asJSON(t, object)
    OBVIOUS
<1>3. formals # <<>> /\ \A i \in DOMAIN formals : SetTo(formals[i], object)
    BY <1>1, <1>2, MethodsTyped, FieldsAreSet DEF Typed
<1>4. Codes(t, text, object)
    BY <1>2, ReadableCoded
<1>5. ReconstituteObject(text) = Outcome("object", Made(formals, object))
    BY <1>1, <1>2, <1>3, <1>4, TypesAre, CodedRead
<1> QED BY <1>2, <1>5, ObjectMade

(***************************************************************************)
(* The types whose objects are not made again.                             *)
(***************************************************************************)

\* Texts may be put together.
LEMMA TextsConcat ==
    ASSUME NEW texts1, IsSeqOfSeqs(texts1), NEW texts2, IsSeqOfSeqs(texts2)
    PROVE  IsSeqOfSeqs(texts1 \o texts2)
<1>1. PICK texts : texts = texts1 \o texts2
    OBVIOUS
<1>2. IsSeq(texts1) /\ IsSeq(texts2)
    BY DEF IsSeqOfSeqs
<1>3. PICK m \in Nat, n \in Nat : m = Len(texts1) /\ n = Len(texts2)
    BY <1>2, SeqLen
<1>4. /\ IsSeq(texts) /\ Len(texts) = m + n
      /\ \A i \in 1 .. m : texts[i] = texts1[i]
      /\ \A i \in 1 .. n : texts[m + i] = texts2[i]
  <2>1. /\ IsSeq(texts1 \o texts2) /\ Len(texts1 \o texts2) = Len(texts1) + Len(texts2)
        /\ \A i \in 1 .. Len(texts1) : (texts1 \o texts2)[i] = texts1[i]
        /\ \A i \in 1 .. Len(texts2) : (texts1 \o texts2)[Len(texts1) + i] = texts2[i]
      BY ONLY <1>2, SeqConcat
  <2> QED BY <1>1, <1>3, <2>1
<1>5. ASSUME NEW i \in 1 .. m + n PROVE IsSeq(texts[i])
  <2>1. CASE i \in 1 .. m
      BY <1>3, <1>4, <2>1 DEF IsSeqOfSeqs
  <2>2. CASE i \notin 1 .. m
    <3>1. PICK j \in 1 .. n : i = m + j
      <4>1. i - m \in 1 .. n /\ i = m + (i - m)
          BY <2>2
      <4> QED BY <4>1
    <3> QED BY <1>3, <1>4, <3>1 DEF IsSeqOfSeqs
  <2> QED BY <2>1, <2>2
<1> QED BY <1>1, <1>4, <1>5 DEF IsSeqOfSeqs

\* Texts that are listed one by one.
LEMMA TextsOf ==
    /\ \A a : IsSeq(a) => IsSeqOfSeqs(<<a>>)
    /\ \A a, b : IsSeq(a) /\ IsSeq(b) => IsSeqOfSeqs(<<a, b>>)
    /\ \A a, b, c : IsSeq(a) /\ IsSeq(b) /\ IsSeq(c) => IsSeqOfSeqs(<<a, b, c>>)
    /\ \A a, b, c, d, e : IsSeq(a) /\ IsSeq(b) /\ IsSeq(c) /\ IsSeq(d) /\ IsSeq(e)
                              => IsSeqOfSeqs(<<a, b, c, d, e>>)
<1>1. ASSUME NEW a, IsSeq(a) PROVE IsSeqOfSeqs(<<a>>)
  <2>1. PICK texts : texts = <<a>>
      OBVIOUS
  <2>2. Len(texts) = 1 /\ texts[1] = a
      BY <2>1
  <2>3. \A i \in 1 .. 1 : i = 1
      OBVIOUS
  <2> QED BY <1>1, <2>1, <2>2, <2>3, SeqOne DEF IsSeqOfSeqs
<1>2. ASSUME NEW a, IsSeq(a), NEW b, IsSeq(b) PROVE IsSeqOfSeqs(<<a, b>>)
  <2>1. PICK texts : texts = <<a, b>>
      OBVIOUS
  <2>2. Len(texts) = 2 /\ texts[1] = a /\ texts[2] = b
      BY <2>1
  <2>3. \A i \in 1 .. 2 : i = 1 \/ i = 2
      OBVIOUS
  <2> QED BY <1>2, <2>1, <2>2, <2>3, SeqTwo DEF IsSeqOfSeqs
<1>3. ASSUME NEW a, IsSeq(a), NEW b, IsSeq(b), NEW c, IsSeq(c)
      PROVE  IsSeqOfSeqs(<<a, b, c>>)
  <2>1. PICK texts : texts = <<a, b, c>>
      OBVIOUS
  <2>2. Len(texts) = 3 /\ texts[1] = a /\ texts[2] = b /\ texts[3] = c
      BY <2>1
  <2>3. \A i \in 1 .. 3 : i = 1 \/ i = 2 \/ i = 3
      OBVIOUS
  <2> QED BY <1>3, <2>1, <2>2, <2>3, SeqThree DEF IsSeqOfSeqs
<1>4. ASSUME NEW a, IsSeq(a), NEW b, IsSeq(b), NEW c, IsSeq(c), NEW d, IsSeq(d),
             NEW e, IsSeq(e)
      PROVE  IsSeqOfSeqs(<<a, b, c, d, e>>)
  <2>1. PICK texts : texts = <<a, b, c, d, e>>
      OBVIOUS
  <2>2. /\ Len(texts) = 5 /\ texts[1] = a /\ texts[2] = b /\ texts[3] = c /\ texts[4] = d
        /\ texts[5] = e
      BY <2>1
  <2>3. \A i \in 1 .. 5 : i = 1 \/ i = 2 \/ i = 3 \/ i = 4 \/ i = 5
      OBVIOUS
  <2> QED BY <1>4, <2>1, <2>2, <2>3, SeqFive DEF IsSeqOfSeqs
<1> QED BY <1>1, <1>2, <1>3, <1>4

\* The fields that are written are texts.
LEMMA StringFieldType ==
    ASSUME NEW name, NEW object
    PROVE  IsSeq(StringField(name, object))
BY QuotedType, FieldType DEF StringField

\* So are several fields that are strings.
LEMMA StringFieldsType ==
    ASSUME NEW names, IsSeq(names), NEW object
    PROVE  /\ IsSeqOfSeqs(StringFields(names, object))
           /\ Len(StringFields(names, object)) = Len(names)
           /\ \A i \in 1 .. Len(names) :
                  StringFields(names, object)[i] = StringField(names[i], object)
<1>1. PICK fields : fields = StringFields(names, object)
    OBVIOUS
<1>2. fields = [i \in DOMAIN names |-> StringField(names[i], object)]
    BY <1>1 DEF StringFields
<1>3. IsSeq(fields) /\ Len(fields) = Len(names)
    BY <1>2, Elementwise
<1>4. \A i \in 1 .. Len(names) : fields[i] = StringField(names[i], object)
    BY <1>2, SeqLen
<1> QED BY <1>1, <1>3, <1>4, StringFieldType DEF IsSeqOfSeqs

\* A list with a text for each element of another list is written.
LEMMA ArrayType ==
    ASSUME NEW list, IsSeq(list), NEW texts, texts = [i \in DOMAIN list |-> texts[i]],
           \A i \in DOMAIN list : IsSeq(texts[i])
    PROVE  IsSeq(Array(texts))
<1>1. IsSeq(texts) /\ Len(texts) = Len(list)
    BY Elementwise
<1>2. IsSeqOfSeqs(texts)
    BY <1>1, SeqLen DEF IsSeqOfSeqs
<1> QED BY <1>2, JoinedType, EnclosedType, ArrayEnclosed

\* A list of strings is written.
LEMMA QuotedArrayType ==
    ASSUME NEW list, IsSeq(list)
    PROVE  IsSeq(Array([i \in DOMAIN list |-> Quoted(list[i])]))
<1>1. PICK texts : texts = [i \in DOMAIN list |-> Quoted(list[i])]
    OBVIOUS
<1>2. texts = [i \in DOMAIN list |-> texts[i]]
    BY <1>1
<1>3. \A i \in DOMAIN list : IsSeq(texts[i])
    BY <1>1, QuotedType
<1> QED BY <1>1, <1>2, <1>3, ArrayType

\* A field with such a list is.
LEMMA ListFieldType ==
    ASSUME NEW name, NEW object, IsSeq(object[name])
    PROVE  IsSeq(ListField(name, object))
<1>1. PICK list : list = object[name]
    OBVIOUS
<1>2. IsSeq(Array([i \in DOMAIN list |-> Quoted(list[i])]))
    BY <1>1, QuotedArrayType
<1>3. ListField(name, object) = Field(name, Array([i \in DOMAIN list |-> Quoted(list[i])]))
    BY <1>1, Zenon DEF ListField
<1> QED BY <1>2, <1>3, FieldType

\* A list of bytes is written.
LEMMA BytesType ==
    ASSUME NEW bytes, IsSeq(bytes)
    PROVE  IsSeq(ByteArrayAsJSON(bytes))
<1>1. PICK texts : texts = [i \in DOMAIN bytes |-> <<ToString(bytes[i])>>]
    OBVIOUS
<1>2. texts = [i \in DOMAIN bytes |-> texts[i]]
    BY <1>1
<1>3. \A i \in DOMAIN bytes : IsSeq(texts[i])
    BY <1>1, SeqOne
<1> QED BY <1>1, <1>2, <1>3, ArrayType DEF ByteArrayAsJSON

\* What a text between braces starts with.
LEMMA FirstHolds ==
    ASSUME NEW text, IsSeq(text), NEW pos,
           NEW fields, IsSeqOfSeqs(fields), fields # <<>>, Holds(text, pos, Braces(fields))
    PROVE  text[pos] = "{" /\ Holds(text, pos + 1, fields[1])
<1>1. IsSeq(Joined(fields))
    BY JoinedType
<1>2. PICK joined, end : joined = Joined(fields) /\ end = pos + 1 + Len(joined)
    OBVIOUS
<1>3. /\ Holds(text, pos, <<"{">>)
      /\ Holds(text, pos + 1, joined)
      /\ Holds(text, end, <<"}">>)
    BY <1>1, <1>2, EnclosedHolds, BracesEnclosed
<1>4. text[pos] = "{" /\ pos \in Nat \ {0} /\ end <= Len(text)
    BY <1>3, HoldsToken
<1>5. PICK n \in Nat \ {0} : n = Len(fields)
    BY SeqLen DEF IsSeqOfSeqs
<1>6. Holds(text, pos + 1, fields[1])
  <2>1. end = (pos + 1) + Len(Joined(fields))
      BY <1>2
  <2> QED BY <1>2, <1>3, <1>4, <1>5, <2>1, JoinedFollows
<1> QED BY <1>4, <1>6

\* The texts begin with others.
Starts(texts, start) ==
    /\ IsSeqOfSeqs(texts) /\ IsSeqOfSeqs(start)
    /\ Len(start) <= Len(texts)
    /\ \A i \in 1 .. Len(start) : texts[i] = start[i]

\* Texts begin with themselves.
LEMMA StartsItself ==
    ASSUME NEW start, IsSeqOfSeqs(start)
    PROVE  Starts(start, start)
<1>1. Len(start) \in Nat
    BY SeqLen DEF IsSeqOfSeqs
<1> QED BY <1>1 DEF Starts

\* They still do when others are appended.
LEMMA StartsConcat ==
    ASSUME NEW texts1, NEW start, Starts(texts1, start), NEW texts2, IsSeqOfSeqs(texts2)
    PROVE  Starts(texts1 \o texts2, start)
<1>1. PICK texts : texts = texts1 \o texts2
    OBVIOUS
<1>2. IsSeqOfSeqs(texts) /\ IsSeqOfSeqs(start)
    BY <1>1, TextsConcat DEF Starts
<1>3. IsSeq(texts1) /\ IsSeq(texts2) /\ IsSeq(start)
    BY DEF Starts, IsSeqOfSeqs
<1>4. PICK l \in Nat, m \in Nat, n \in Nat :
          l = Len(start) /\ m = Len(texts1) /\ n = Len(texts2)
    BY <1>3, SeqLen
<1>5. Len(texts) = m + n /\ \A i \in 1 .. m : texts[i] = texts1[i]
  <2>1. /\ Len(texts1 \o texts2) = Len(texts1) + Len(texts2)
        /\ \A i \in 1 .. Len(texts1) : (texts1 \o texts2)[i] = texts1[i]
      BY ONLY <1>3, SeqConcat
  <2> QED BY <1>1, <1>4, <2>1
<1>6. l <= m /\ \A i \in 1 .. l : texts1[i] = start[i]
    BY <1>4 DEF Starts
<1>7. l <= m + n /\ \A i \in 1 .. l : i \in 1 .. m
    BY <1>6
<1>8. \A i \in 1 .. l : texts[i] = start[i]
    BY <1>5, <1>6, <1>7
<1> QED BY <1>1, <1>2, <1>4, <1>5, <1>7, <1>8 DEF Starts

\* The first of them is the first of the others.
LEMMA StartsFirst ==
    ASSUME NEW texts, NEW start, Starts(texts, start), start # <<>>
    PROVE  IsSeqOfSeqs(texts) /\ texts # <<>> /\ texts[1] = start[1]
<1>1. Len(start) \in Nat \ {0}
    BY SeqLen DEF Starts, IsSeqOfSeqs
<1>2. IsSeqOfSeqs(texts) /\ Len(start) <= Len(texts) /\ texts[1] = start[1]
    BY <1>1 DEF Starts
<1> QED BY <1>1, <1>2, SeqLen DEF IsSeqOfSeqs

\* Every object's text begins with the field Id.
LEMMA PersistObjStarts ==
    ASSUME NEW object
    PROVE  /\ Starts(persistObjFieldsAsJSON(object), persistObjFieldsAsJSON(object))
           /\ Len(persistObjFieldsAsJSON(object)) = 1
           /\ persistObjFieldsAsJSON(object)[1] = Field("Id", Quoted(object["Id"]))
<1>1. PICK names : names = <<"Id">>
    OBVIOUS
<1>2. IsSeq(names) /\ Len(names) = 1 /\ names[1] = "Id"
    BY <1>1, SeqOne
<1>3. PICK fields : fields = persistObjFieldsAsJSON(object)
    OBVIOUS
<1>4. fields = StringFields(names, object)
    BY <1>1, <1>3 DEF persistObjFieldsAsJSON
<1>5. /\ IsSeqOfSeqs(fields) /\ Len(fields) = 1
      /\ fields[1] = StringField("Id", object)
    BY <1>2, <1>4, StringFieldsType
<1> QED BY <1>3, <1>5, StartsItself DEF StringField

\* Without the name of the type, Id is taken for it.
LEMMA BracesFail ==
    ASSUME NEW fields, NEW start, Starts(fields, start), Len(start) = 1,
           NEW rest, IsSeq(rest), start[1] = Field("Id", rest)
    PROVE  ReconstituteObject(Braces(fields)) = Error
<1>1. /\ IsSeqOfSeqs(fields) /\ fields # <<>> /\ fields[1] = Field("Id", rest)
  <2>1. IsSeqOfSeqs(fields) /\ 1 <= Len(fields) /\ fields[1] = start[1]
      BY DEF Starts
  <2>2. fields # <<>>
      BY <2>1, SeqLen DEF IsSeqOfSeqs
  <2> QED BY <2>1, <2>2
<1>2. PICK text : text = Braces(fields)
    OBVIOUS
<1>3. IsSeq(text) /\ Holds(text, 1, Braces(fields))
    BY <1>1, <1>2, BracesType, HoldsItself
<1>4. text[1] = "{" /\ Holds(text, 2, Field("Id", rest))
  <2>1. text[1] = "{" /\ Holds(text, 1 + 1, fields[1])
      BY <1>1, <1>3, FirstHolds
  <2>2. 1 + 1 = 2
      OBVIOUS
  <2> QED BY <1>1, <2>1, <2>2
<1>5. \A p \in 1 .. 2 - 1 : text[p] # Quote
  <2>1. \A p \in 1 .. 2 - 1 : p = 1
      OBVIOUS
  <2>2. "{" # Quote
      BY DEF Quote
  <2> QED BY <1>4, <2>1, <2>2, Zenon
<1> QED BY <1>2, <1>3, <1>4, <1>5, NamelessFails

\* The first field's name is taken for the type's.
LEMMA VersionFails ==
    ASSUME NEW object,
           IsSeq(object["ScanEventIds"]), IsSeq(object["Digest"]), IsSeq(object["Signature"])
    PROVE  ReconstituteObject(DockerImageVersion_asJSON(object)) = Error
<1>1. PICK ids, base, first, second, third :
          /\ ids = object["ScanEventIds"]
          /\ base = persistObjFieldsAsJSON(object)
          /\ first = StringFields(<<"Version", "ImageObjId", "ImageCreationEventId">>, object)
          /\ second = <<Field("CreationDate",
                              FormatTimeAsJavascriptDate(object["CreationDate"]))>>
          /\ third = <<Quoted(object["ImageCreationEventId"]),
                       Field("ScanEventIds", Array([i \in DOMAIN ids |-> <<ids[i]>>])),
                       Field("Digest", ByteArrayAsJSON(object["Digest"])),
                       Field("Signature", ByteArrayAsJSON(object["Signature"])),
                       Field("DockerBuildOutput",
                             Quoted(EncodeStringForJSON(object["DockerBuildOutput"])))>>
    OBVIOUS
<1>2. PICK fields : fields = ((base \o first) \o second) \o third
    OBVIOUS
<1>3. DockerImageVersion_asJSON(object) = Braces(fields)
    BY <1>1, <1>2, Zenon DEF DockerImageVersion_asJSON, imageVersionFieldsAsJSON
<1>4. /\ Starts(base, base) /\ Len(base) = 1
      /\ base[1] = Field("Id", Quoted(object["Id"]))
    BY <1>1, PersistObjStarts
<1>5. IsSeqOfSeqs(first)
    BY <1>1, StringFieldsType, SeqThree
<1>6. IsSeqOfSeqs(second)
    BY <1>1, TextsOf, FieldType, QuotedType DEF FormatTimeAsJavascriptDate
<1>7. IsSeqOfSeqs(third)
  <2>1. IsSeq(Array([i \in DOMAIN ids |-> <<ids[i]>>]))
    <3>1. PICK texts : texts = [i \in DOMAIN ids |-> <<ids[i]>>]
        OBVIOUS
    <3>2. texts = [i \in DOMAIN ids |-> texts[i]]
        BY <3>1
    <3>3. \A i \in DOMAIN ids : IsSeq(texts[i])
        BY <3>1, SeqOne
    <3> QED BY <1>1, <3>1, <3>2, <3>3, ArrayType
  <2>2. /\ IsSeq(Field("ScanEventIds", Array([i \in DOMAIN ids |-> <<ids[i]>>])))
        /\ IsSeq(Field("Digest", ByteArrayAsJSON(object["Digest"])))
        /\ IsSeq(Field("Signature", ByteArrayAsJSON(object["Signature"])))
        /\ IsSeq(Field("DockerBuildOutput",
                       Quoted(EncodeStringForJSON(object["DockerBuildOutput"]))))
        /\ IsSeq(Quoted(object["ImageCreationEventId"]))
      BY <2>1, BytesType, QuotedType, FieldType
  <2> QED BY <1>1, <2>2, TextsOf
<1>8. Starts(fields, base)
    BY <1>2, <1>4, <1>5, <1>6, <1>7, StartsConcat
<1> QED BY <1>3, <1>4, <1>8, BracesFail, QuotedType

\* The values of parameters start with a brace too many.
LEMMA ParameterValueStarts ==
    ASSUME NEW object
    PROVE  /\ IsSeqOfSeqs(parameterValueFieldsAsJSON(object))
           /\ parameterValueFieldsAsJSON(object) # <<>>
           /\ \A text, pos :
                  IsSeq(text) /\ Holds(text, pos, parameterValueFieldsAsJSON(object)[1])
                      => /\ text[pos] = "{"
                         /\ Holds(text, pos + 1, StringField("Id", object))
<1>1. PICK brace, id, name, value :
          /\ brace = <<"{">>
          /\ id = StringField("Id", object)
          /\ name = StringField("Name", object)
          /\ value = StringField("StringValue", object)
    OBVIOUS
<1>2. IsSeq(brace) /\ Len(brace) = 1 /\ IsSeq(id) /\ IsSeq(name) /\ IsSeq(value)
    BY <1>1, SeqOne, StringFieldType
<1>3. PICK start : start = brace \o id
    OBVIOUS
<1>4. IsSeq(start)
    BY <1>2, <1>3, SeqConcat
<1>5. PICK first : first = start \o name
    OBVIOUS
<1>6. IsSeq(first)
    BY <1>2, <1>4, <1>5, SeqConcat
<1>7. PICK fields : fields = <<first, value>>
    OBVIOUS
<1>8. IsSeqOfSeqs(fields) /\ fields # <<>> /\ fields[1] = first
  <2>1. Len(fields) = 2 /\ fields[1] = first
      BY <1>7
  <2>2. IsSeqOfSeqs(fields)
      BY <1>2, <1>6, <1>7, TextsOf
  <2> QED BY <2>1, <2>2, SeqLen DEF IsSeqOfSeqs
<1>9. parameterValueFieldsAsJSON(object) = fields
    BY <1>1, <1>3, <1>5, <1>7, Zenon DEF parameterValueFieldsAsJSON
<1>10. ASSUME NEW text, IsSeq(text), NEW pos, Holds(text, pos, first)
       PROVE  text[pos] = "{" /\ Holds(text, pos + 1, id)
  <2>1. Holds(text, pos, start)
      BY <1>2, <1>4, <1>5, <1>10, HoldsConcat
  <2>2. Holds(text, pos, brace) /\ Holds(text, pos + 1, id)
      BY <1>2, <1>3, <1>10, <2>1, HoldsConcat
  <2> QED BY <1>1, <1>10, <2>2, HoldsToken
<1> QED BY <1>1, <1>8, <1>9, <1>10

\* The values of the parameters of executions.
LEMMA ParameterValueFails ==
    ASSUME NEW object
    PROVE  ReconstituteObject(DockerfileExecParameterValue_asJSON(object)) = Error
<1>1. PICK base, last : /\ base = parameterValueFieldsAsJSON(object)
                        /\ last = <<StringField("DockerfileId", object)>>
    OBVIOUS
<1>2. PICK fields : fields = base \o last
    OBVIOUS
<1>3. DockerfileExecParameterValue_asJSON(object) = Braces(fields)
    BY <1>1, <1>2, Zenon DEF DockerfileExecParameterValue_asJSON,
                             dockerfileExecParameterValueFieldsAsJSON
<1>4. IsSeqOfSeqs(fields) /\ fields # <<>> /\ fields[1] = base[1]
  <2>1. IsSeqOfSeqs(base) /\ base # <<>> /\ IsSeqOfSeqs(last)
      BY <1>1, ParameterValueStarts, StringFieldType, TextsOf
  <2>2. Starts(fields, base)
      BY <1>2, <2>1, StartsItself, StartsConcat
  <2> QED BY <2>1, <2>2, StartsFirst
<1>5. PICK text : text = Braces(fields)
    OBVIOUS
<1>6. IsSeq(text) /\ Holds(text, 1, Braces(fields))
    BY <1>4, <1>5, BracesType, HoldsItself
<1>7. text[1] = "{" /\ Holds(text, 1 + 1, base[1])
    BY <1>4, <1>6, FirstHolds
<1>8. text[1 + 1] = "{" /\ Holds(text, 1 + 1 + 1, StringField("Id", object))
    BY <1>1, <1>6, <1>7, ParameterValueStarts
<1>9. Holds(text, 3, Field("Id", Quoted(object["Id"])))
  <2>1. 1 + 1 + 1 = 3
      OBVIOUS
  <2> QED BY <1>8, <2>1, Zenon DEF StringField
<1>10. \A p \in 1 .. 3 - 1 : text[p] # Quote
  <2>1. \A p \in 1 .. 3 - 1 : p = 1 \/ p = 1 + 1
      OBVIOUS
  <2>2. "{" # Quote
      BY DEF Quote
  <2> QED BY <1>7, <1>8, <2>1, <2>2, Zenon
<1> QED BY <1>3, <1>5, <1>6, <1>9, <1>10, NamelessFails, QuotedType

\* The values of the parameters of scans, in two pairs of braces.
LEMMA ScanParameterValueFails ==
    ASSUME NEW object
    PROVE  ReconstituteObject(ScanParameterValue_asJSON(object)) = Error
<1>1. PICK base, last : /\ base = parameterValueFieldsAsJSON(object)
                        /\ last = <<StringField("ConfigId", object)>>
    OBVIOUS
<1>2. PICK fields : fields = base \o last
    OBVIOUS
<1>3. ScanParameterValue_asJSON(object) = Braces(<<Braces(fields)>>)
    BY <1>1, <1>2, Zenon DEF ScanParameterValue_asJSON, scanParameterValueFieldsAsJSON
<1>4. IsSeqOfSeqs(fields) /\ fields # <<>> /\ fields[1] = base[1]
  <2>1. IsSeqOfSeqs(base) /\ base # <<>> /\ IsSeqOfSeqs(last)
      BY <1>1, ParameterValueStarts, StringFieldType, TextsOf
  <2>2. Starts(fields, base)
      BY <1>2, <2>1, StartsItself, StartsConcat
  <2> QED BY <2>1, <2>2, StartsFirst
<1>5. PICK inner : inner = Braces(fields)
    OBVIOUS
<1>6. PICK outer : outer = <<inner>>
    OBVIOUS
<1>7. IsSeqOfSeqs(outer) /\ outer # <<>> /\ outer[1] = inner
  <2>1. Len(outer) = 1 /\ outer[1] = inner
      BY <1>6
  <2>2. IsSeqOfSeqs(outer)
      BY <1>4, <1>5, <1>6, BracesType, TextsOf
  <2> QED BY <2>1, <2>2, SeqLen DEF IsSeqOfSeqs
<1>8. PICK text : text = Braces(outer)
    OBVIOUS
<1>9. IsSeq(text) /\ Holds(text, 1, Braces(outer))
    BY <1>7, <1>8, BracesType, HoldsItself
<1>10. text[1] = "{" /\ Holds(text, 1 + 1, Braces(fields))
    BY <1>5, <1>7, <1>9, FirstHolds
<1>11. text[1 + 1] = "{" /\ Holds(text, 1 + 1 + 1, base[1])
    BY <1>4, <1>9, <1>10, FirstHolds
<1>12. /\ text[1 + 1 + 1] = "{"
       /\ Holds(text, 1 + 1 + 1 + 1, StringField("Id", object))
    BY <1>1, <1>9, <1>11, ParameterValueStarts
<1>13. Holds(text, 4, Field("Id", Quoted(object["Id"])))
  <2>1. 1 + 1 + 1 + 1 = 4
      OBVIOUS
  <2> QED BY <1>12, <2>1, Zenon DEF StringField
<1>14. \A p \in 1 .. 4 - 1 : text[p] # Quote
  <2>1. \A p \in 1 .. 4 - 1 : p = 1 \/ p = 1 + 1 \/ p = 1 + 1 + 1
      OBVIOUS
  <2>2. "{" # Quote
      BY DEF Quote
  <2> QED BY <1>10, <1>11, <1>12, <2>1, <2>2, Zenon
<1> QED BY <1>3, <1>5, <1>6, <1>8, <1>9, <1>13, <1>14, NamelessFails, QuotedType

\* The texts of events begin with the id and the time.
LEMMA EventStarts ==
    ASSUME NEW object
    PROVE  LET event == eventFieldsAsJSON(object)
           IN /\ Starts(event, event) /\ Len(event) = 3
              /\ event[1] = StringField("Id", object)
              /\ event[2] = Field("When", TwiceQuoted(object["When"]))
<1>1. PICK base, when, user :
          /\ base = persistObjFieldsAsJSON(object)
          /\ when = Field("When", TwiceQuoted(object["When"]))
          /\ user = StringField("UserObjId", object)
    OBVIOUS
<1>2. PICK last : last = <<when, user>>
    OBVIOUS
<1>3. PICK event : event = base \o last
    OBVIOUS
<1>4. eventFieldsAsJSON(object) = event
    BY <1>1, <1>2, <1>3, Zenon DEF eventFieldsAsJSON, TwiceQuoted
<1>5. /\ IsSeqOfSeqs(base) /\ Len(base) = 1
      /\ base[1] = StringField("Id", object)
    BY <1>1, PersistObjStarts DEF Starts, StringField
<1>6. IsSeq(when) /\ IsSeq(user)
  <2>1. PICK open, date, close : /\ open = <<"time", Quote>>
                                 /\ date = FormatTimeAsJavascriptDate(object["When"])
                                 /\ close = <<Quote>>
      OBVIOUS
  <2>2. IsSeq(open) /\ IsSeq(date) /\ IsSeq(close)
      BY <2>1, SeqTwo, SeqOne, QuotedType DEF FormatTimeAsJavascriptDate
  <2>3. IsSeq(open \o date)
      BY <2>2, SeqConcat
  <2>4. PICK start : start = open \o date
      OBVIOUS
  <2>5. IsSeq(start \o close)
      BY <2>2, <2>3, <2>4, SeqConcat
  <2>6. TwiceQuoted(object["When"]) = start \o close
      BY <2>1, <2>4, Zenon DEF TwiceQuoted
  <2> QED BY <1>1, <2>5, <2>6, FieldType, StringFieldType
<1>7. IsSeqOfSeqs(last) /\ Len(last) = 2 /\ last[1] = when
  <2>1. Len(last) = 2 /\ last[1] = when
      BY <1>2
  <2> QED BY <1>2, <1>6, <2>1, TextsOf
<1>8. IsSeqOfSeqs(event)
    BY <1>3, <1>5, <1>7, TextsConcat
<1>9. Len(event) = 3 /\ event[1] = base[1] /\ event[2] = when
  <2>1. IsSeq(base) /\ IsSeq(last)
      BY <1>5, <1>7 DEF IsSeqOfSeqs
  <2>2. /\ Len(base \o last) = Len(base) + Len(last)
        /\ \A i \in 1 .. Len(base) : (base \o last)[i] = base[i]
        /\ \A i \in 1 .. Len(last) : (base \o last)[Len(base) + i] = last[i]
      BY ONLY <2>1, SeqConcat
  <2>3. 1 + 2 = 3 /\ 1 + 1 = 2 /\ 1 \in 1 .. 1 /\ 1 \in 1 .. 2
      OBVIOUS
  <2>4. Len(event) = 1 + 2 /\ event[1] = base[1] /\ event[1 + 1] = last[1]
      BY ONLY <1>3, <1>5, <1>7, <2>2, <2>3
  <2> QED BY <1>7, <2>3, <2>4
<1> QED BY <1>1, <1>4, <1>5, <1>8, <1>9, StartsItself

\* An object with the fields of an event is not made again.
LEMMA EventFails ==
    ASSUME NEW typeName, IsName(typeName), NEW object,
           object["Id"] \in PlainStrings, object["When"] = Date,
           NEW fields, Starts(fields, eventFieldsAsJSON(object))
    PROVE  ReconstituteObject(Named(typeName, fields)) = Error
<1>1. PICK event : event = eventFieldsAsJSON(object)
    OBVIOUS
<1>2. /\ Len(event) = 3 /\ event[1] = StringField("Id", object)
      /\ event[2] = Field("When", TwiceQuoted(Date))
    BY <1>1, EventStarts
<1>3. /\ IsSeqOfSeqs(fields) /\ 3 <= Len(fields)
      /\ \A i \in 1 .. 3 : fields[i] = event[i]
    BY <1>1, <1>2 DEF Starts
<1>4. PICK n \in Nat \ {0, 1} : n = Len(fields)
  <2>1. Len(fields) \in Nat
      BY <1>3, SeqLen DEF IsSeqOfSeqs
  <2> QED BY <1>3, <2>1
<1>5. /\ fields[1] = StringField("Id", object)
      /\ fields[2] = Field("When", TwiceQuoted(Date))
  <2>1. 1 \in 1 .. 3 /\ 2 \in 1 .. 3
      OBVIOUS
  <2> QED BY <1>2, <1>3, <2>1
<1>6. SetTo(Arg("Id", String), object)
    BY ArgFields, ContentsAre, SimpleFields DEF SetTo, Has
<1>7. PICK value : ReadableField(fields[1], value)
    BY <1>5, <1>6, StringWritten DEF Written, Gives
<1>8. IsName("When")
    BY SimpleFields DEF Has
<1> QED BY <1>3, <1>4, <1>5, <1>7, <1>8, NamedFails

\* The two types of events.
LEMMA DockerfileExecEventFails ==
    ASSUME NEW object, object["Id"] \in PlainStrings, object["When"] = Date
    PROVE  ReconstituteObject(DockerfileExecEvent_asJSON(object)) = Error
<1>1. PICK event, first, second :
          /\ event = eventFieldsAsJSON(object)
          /\ first = <<StringField("ImageVersionId", object)>>
          /\ second = <<StringField("DockerfileId", object),
                        Field("DockerfileContent",
                              Quoted(EncodeStringForJSON(object["DockerfileContent"])))>>
    OBVIOUS
<1>2. PICK fields : fields = (event \o first) \o second
    OBVIOUS
<1>3. DockerfileExecEvent_asJSON(object) = Named("DockerfileExecEvent", fields)
    BY <1>1, <1>2, Zenon DEF DockerfileExecEvent_asJSON, imageCreationEventFieldsAsJSON
<1>4. IsSeqOfSeqs(first) /\ IsSeqOfSeqs(second)
    BY <1>1, TextsOf, StringFieldType, FieldType, QuotedType
<1>5. Starts(fields, event)
    BY <1>1, <1>2, <1>4, EventStarts, StartsConcat
<1>6. IsName("DockerfileExecEvent")
    BY TypesAre DEF TypeNames
<1> QED BY <1>1, <1>3, <1>5, <1>6, EventFails

LEMMA ScanEventFails ==
    ASSUME NEW object, object["Id"] \in PlainStrings, object["When"] = Date,
           IsSeq(object["ActualParameterValueIds"]), IsSeqOfSeqs(object["Result"])
    PROVE  ReconstituteObject(ScanEvent_asJSON(object)) = Error
<1> DEFINE names == <<"ScanConfigId", "DockerImageVersionId", "ProviderName">>
           AllQuoted(list) == Array([i \in DOMAIN list |-> Quoted(list[i])])
<1>1. PICK vulnerabilities, results :
          /\ vulnerabilities = object["Result"]
          /\ results = [i \in DOMAIN vulnerabilities |-> AllQuoted(vulnerabilities[i])]
    OBVIOUS
<1>2. PICK event, first, second :
          /\ event = eventFieldsAsJSON(object)
          /\ first = StringFields(names, object)
          /\ second = <<ListField("ActualParameterValueIds", object),
                        StringField("Score", object), Field("Result", Array(results))>>
    OBVIOUS
<1>3. PICK fields : fields = (event \o first) \o second
    OBVIOUS
<1>4. ScanEvent_asJSON(object) = Named("ScanEvent", fields)
    BY <1>1, <1>2, <1>3, Zenon DEF ScanEvent_asJSON
<1>5. IsSeq(Array(results))
  <2>1. IsSeq(vulnerabilities) /\ results = [i \in DOMAIN vulnerabilities |-> results[i]]
      BY <1>1 DEF IsSeqOfSeqs
  <2>2. ASSUME NEW i \in DOMAIN vulnerabilities PROVE IsSeq(results[i])
    <3>1. IsSeq(vulnerabilities[i])
        BY <1>1, <2>1, SeqLen DEF IsSeqOfSeqs
    <3>2. results[i] = AllQuoted(vulnerabilities[i])
        BY <1>1
    <3> QED BY <3>1, <3>2, QuotedArrayType
  <2> QED BY <2>1, <2>2, ArrayType
<1>6. IsSeqOfSeqs(second)
    BY <1>2, <1>5, TextsOf, ListFieldType, StringFieldType, FieldType
<1>7. IsSeqOfSeqs(first)
    BY <1>2, StringFieldsType, SeqThree
<1>8. Starts(fields, event)
    BY <1>2, <1>3, <1>6, <1>7, EventStarts, StartsConcat
<1>9. IsName("ScanEvent")
    BY TypesAre DEF TypeNames
<1> QED BY <1>2, <1>4, <1>8, <1>9, EventFails

\* The field is one of the formal arguments.
IsField(f, formals) == \E i \in DOMAIN formals : formals[i].field = f

\* Parts may be put together.
LEMMA FieldOfConcat ==
    ASSUME NEW f, NEW formals1, Typed(formals1), NEW formals2, Typed(formals2),
           IsField(f, formals1) \/ IsField(f, formals2)
    PROVE  IsField(f, formals1 \o formals2)
<1>1. IsSeq(formals1) /\ IsSeq(formals2)
    BY DEF Typed
<1>2. PICK m \in Nat, n \in Nat : /\ m = Len(formals1) /\ DOMAIN formals1 = 1 .. m
                                  /\ n = Len(formals2) /\ DOMAIN formals2 = 1 .. n
    BY <1>1, SeqLen
<1>3. PICK formals : formals = formals1 \o formals2
    OBVIOUS
<1>4. /\ DOMAIN formals = 1 .. m + n
      /\ \A i \in 1 .. m : formals[i] = formals1[i]
      /\ \A i \in 1 .. n : formals[m + i] = formals2[i]
  <2>1. /\ IsSeq(formals1 \o formals2)
        /\ Len(formals1 \o formals2) = Len(formals1) + Len(formals2)
        /\ \A i \in 1 .. Len(formals1) : (formals1 \o formals2)[i] = formals1[i]
        /\ \A i \in 1 .. Len(formals2) : (formals1 \o formals2)[Len(formals1) + i] = formals2[i]
      BY ONLY <1>1, SeqConcat
  <2>2. IsSeq(formals) /\ Len(formals) = m + n
      BY <1>2, <1>3, <2>1
  <2> QED BY <1>2, <1>3, <2>1, <2>2, SeqLen
<1>5. CASE IsField(f, formals1)
  <2>1. PICK i \in 1 .. m : formals1[i].field = f
      BY <1>2, <1>5 DEF IsField
  <2>2. i \in 1 .. m + n
      OBVIOUS
  <2> QED BY <1>3, <1>4, <2>1, <2>2 DEF IsField
<1>6. CASE IsField(f, formals2)
  <2>1. PICK i \in 1 .. n : formals2[i].field = f
      BY <1>2, <1>6 DEF IsField
  <2>2. m + i \in 1 .. m + n
      OBVIOUS
  <2> QED BY <1>3, <1>4, <2>1, <2>2 DEF IsField
<1> QED BY <1>5, <1>6

\* Arguments of one type.
LEMMA FieldOfArgs ==
    ASSUME NEW names, IsSeq(names), NEW type_, NEW f, \E i \in 1 .. Len(names) : names[i] = f
    PROVE  IsField(f, Args(names, type_))
<1>1. PICK formals : formals = Args(names, type_)
    OBVIOUS
<1>2. formals = [i \in DOMAIN names |-> Arg(names[i], type_)]
    BY <1>1 DEF Args
<1>3. PICK i \in DOMAIN names : names[i] = f
    BY SeqLen
<1>4. formals[i].field = f
  <2>1. formals[i] = Arg(f, type_)
      BY <1>2, <1>3
  <2> QED BY <2>1, ArgFields
<1>5. i \in DOMAIN formals
    BY <1>2
<1> QED BY <1>1, <1>4, <1>5 DEF IsField

\* The fields of events.
LEMMA FieldOfEvent ==
    IsField("Id", ReconstituteEvent) /\ IsField("When", ReconstituteEvent)
<1>1. IsField("Id", ReconstitutePersistObj)
  <2>1. PICK names : names = <<"Id">>
      OBVIOUS
  <2>2. IsSeq(names) /\ Len(names) = 1 /\ names[1] = "Id" /\ 1 \in 1 .. 1
      BY <2>1, SeqOne
  <2> QED BY <2>1, <2>2, FieldOfArgs DEF ReconstitutePersistObj
<1>2. PICK last : last = <<Arg("When", Time), Arg("UserObjId", String)>>
    OBVIOUS
<1>3. Typed(last)
    BY <1>2, SimpleFields, TypedTwo
<1>4. IsField("When", last)
  <2>1. 1 \in DOMAIN last /\ last[1] = Arg("When", Time)
      BY <1>2
  <2> QED BY <2>1, ArgFields DEF IsField
<1> QED BY <1>1, <1>2, <1>3, <1>4, TypedShared, FieldOfConcat DEF ReconstituteEvent

LEMMA FieldsOfEvents ==
    /\ IsField("Id", ReconstituteDockerfileExecEvent)
    /\ IsField("When", ReconstituteDockerfileExecEvent)
    /\ IsField("Id", ReconstituteScanEvent)
    /\ IsField("When", ReconstituteScanEvent)
    /\ IsField("ActualParameterValueIds", ReconstituteScanEvent)
    /\ IsField("Result", ReconstituteScanEvent)
<1>1. /\ IsField("Id", ReconstituteDockerfileExecEvent)
      /\ IsField("When", ReconstituteDockerfileExecEvent)
  <2>1. Typed(Args(<<"ImageVersionId">>, String))
      BY SimpleFields, TypedArgsOne
  <2>2. /\ IsField("Id", ReconstituteImageCreationEvent)
        /\ IsField("When", ReconstituteImageCreationEvent)
      BY <2>1, FieldOfEvent, TypedShared, FieldOfConcat DEF ReconstituteImageCreationEvent
  <2>3. Typed(Args(<<"DockerfileId", "DockerfileContent">>, String))
      BY SimpleFields, TypedArgsTwo
  <2> QED BY <2>2, <2>3, TypedShared, FieldOfConcat DEF ReconstituteDockerfileExecEvent
<1>2. PICK event, first, last :
          /\ event = ReconstituteEvent
          /\ first = Args(<<"ScanConfigId", "DockerImageVersionId", "ProviderName">>, String)
          /\ last = <<Arg("ActualParameterValueIds", Strings), Arg("Score", String),
                      Arg("Result", ListOf(Strings))>>
    OBVIOUS
<1>3. Typed(event) /\ Typed(first) /\ Typed(last)
    BY <1>2, TypedShared, SimpleFields, ListsOfFields, TypedArgsThree, TypedThree
<1>4. ReconstituteScanEvent = (event \o first) \o last
    BY <1>2, Zenon DEF ReconstituteScanEvent
<1>5. PICK start : start = event \o first
    OBVIOUS
<1>6. Typed(start) /\ IsField("Id", start) /\ IsField("When", start)
    BY <1>2, <1>3, <1>5, FieldOfEvent, TypedConcat, FieldOfConcat
<1>7. IsField("ActualParameterValueIds", last) /\ IsField("Result", last)
  <2>1. /\ 1 \in DOMAIN last /\ last[1] = Arg("ActualParameterValueIds", Strings)
        /\ 3 \in DOMAIN last /\ last[3] = Arg("Result", ListOf(Strings))
      BY <1>2
  <2> QED BY <2>1, ArgFields DEF IsField
<1> QED BY <1>1, <1>3, <1>4, <1>5, <1>6, <1>7, FieldOfConcat

\* The lists of the versions of images.
LEMMA FieldsOfVersion ==
    /\ IsField("ScanEventIds", ReconstituteDockerImageVersion)
    /\ IsField("Digest", ReconstituteDockerImageVersion)
    /\ IsField("Signature", ReconstituteDockerImageVersion)
<1>1. PICK first, second, third, fourth :
          /\ first = Args(<<"Version", "ImageObjId">>, String)
          /\ second = <<Arg("CreationDate", Time), Arg("ImageCreationEventId", String),
                        Arg("ScanEventIds", Strings)>>
          /\ third = Args(<<"Digest", "Signature">>, ListOf(Byte))
          /\ fourth = Args(<<"DockerBuildOutput">>, String)
    OBVIOUS
<1>2. Typed(first) /\ Typed(second) /\ Typed(third) /\ Typed(fourth)
    BY <1>1, SimpleFields, ListsOfFields, TypedArgsTwo, TypedThree, TypedArgsOne
<1>3. ReconstituteDockerImageVersion = ((first \o second) \o third) \o fourth
    BY <1>1, Zenon DEF ReconstituteDockerImageVersion
<1>4. IsField("ScanEventIds", second)
  <2>1. 3 \in DOMAIN second /\ second[3] = Arg("ScanEventIds", Strings)
      BY <1>1
  <2> QED BY <2>1, ArgFields DEF IsField
<1>5. IsField("Digest", third) /\ IsField("Signature", third)
  <2>1. PICK names : names = <<"Digest", "Signature">>
      OBVIOUS
  <2>2. /\ IsSeq(names) /\ Len(names) = 2 /\ names[1] = "Digest" /\ names[2] = "Signature"
        /\ 1 \in 1 .. 2 /\ 2 \in 1 .. 2
      BY <2>1, SeqTwo
  <2> QED BY <1>1, <2>1, <2>2, FieldOfArgs
<1>6. Typed(first \o second) /\ IsField("ScanEventIds", first \o second)
    BY <1>2, <1>4, TypedConcat, FieldOfConcat
<1>7. PICK start : start = first \o second
    OBVIOUS
<1>8. /\ Typed(start \o third) /\ IsField("ScanEventIds", start \o third)
      /\ IsField("Digest", start \o third) /\ IsField("Signature", start \o third)
    BY <1>2, <1>5, <1>6, <1>7, TypedConcat, FieldOfConcat
<1> QED BY <1>2, <1>3, <1>7, <1>8, FieldOfConcat

\* A field of an object holds a value of its type.
LEMMA FieldHeld ==
    ASSUME NEW t \in TypeNames, NEW object, ObjectOf(t, object),
           NEW f, NEW type_, Has(f, type_), IsField(f, MethodByName[t])
    PROVE  object[f] \in Contents(type_)
<1>1. PICK formals : formals = MethodByName[t]
    OBVIOUS
<1>2. PICK i \in DOMAIN formals : formals[i].field = f
    BY <1>1 DEF IsField
<1>3. SetTo(formals[i], object)
    BY <1>1, FieldsAreSet
<1>4. Has(formals[i].field, formals[i].type)
    BY <1>1, MethodsTyped, SeqLen DEF Typed
<1>5. formals[i].type = type_
    BY <1>2, <1>4 DEF Has
<1> QED BY <1>2, <1>3, <1>5 DEF SetTo

\* No object of an unreadable type is made again from its text.
LEMMA UnreadableFails ==
    ASSUME NEW t \in Unreadable, NEW object, ObjectOf(t, object)
    PROVE  ReconstituteObject(asJSON(t, object)) = Error
<1>1. t \in TypeNames
    BY DEF Unreadable, TypeNames
<1>2. CASE t = "DockerImageVersion"
  <2>1. MethodByName[t] = ReconstituteDockerImageVersion
      BY <1>2, MethodsAre
  <2>2. /\ object["ScanEventIds"] \in Contents(Strings)
        /\ object["Digest"] \in Contents(ListOf(Byte))
        /\ object["Signature"] \in Contents(ListOf(Byte))
      BY <1>1, <2>1, FieldsOfVersion, ListsOfFields, FieldHeld
  <2>3. IsSeq(object["ScanEventIds"]) /\ IsSeq(object["Digest"]) /\ IsSeq(object["Signature"])
      BY <2>2, ContentsAre, SeqElements
  <2> QED BY <1>2, <2>3, TextsAre, VersionFails
<1>3. CASE t = "ScanParameterValue"
    BY <1>3, TextsAre, ScanParameterValueFails
<1>4. CASE t = "DockerfileExecParameterValue"
    BY <1>4, TextsAre, ParameterValueFails
<1>5. CASE t = "DockerfileExecEvent"
  <2>1. MethodByName[t] = ReconstituteDockerfileExecEvent
      BY <1>5, MethodsAre
  <2>2. object["Id"] \in Contents(String) /\ object["When"] \in Contents(Time)
      BY <1>1, <2>1, FieldsOfEvents, SimpleFields, FieldHeld
  <2>3. object["Id"] \in PlainStrings /\ object["When"] = Date
      BY <2>2, ContentsAre
  <2> QED BY <1>5, <2>3, TextsAre, DockerfileExecEventFails
<1>6. CASE t = "ScanEvent"
  <2>1. MethodByName[t] = ReconstituteScanEvent
      BY <1>6, MethodsAre
  <2>2. /\ object["Id"] \in Contents(String) /\ object["When"] \in Contents(Time)
        /\ object["ActualParameterValueIds"] \in Contents(Strings)
        /\ object["Result"] \in Contents(ListOf(Strings))
      BY <1>1, <2>1, FieldsOfEvents, SimpleFields, ListsOfFields, FieldHeld
  <2>3. /\ object["Id"] \in PlainStrings /\ object["When"] = Date
        /\ IsSeq(object["ActualParameterValueIds"])
      BY <2>2, ContentsAre, SeqElements
  <2>4. IsSeqOfSeqs(object["Result"])
    <3>1. PICK S : object["Result"] \in Seq(Seq(S))
        BY <2>2, ContentsAre
    <3>2. /\ IsSeq(object["Result"])
          /\ \A i \in 1 .. Len(object["Result"]) : object["Result"][i] \in Seq(S)
        BY <3>1, SeqElements
    <3>3. \A i \in 1 .. Len(object["Result"]) : IsSeq(object["Result"][i])
        BY <3>2, SeqElements
    <3> QED BY <3>2, <3>3 DEF IsSeqOfSeqs
  <2> QED BY <1>6, <2>3, <2>4, TextsAre, ScanEventFails
<1> QED BY <1>2, <1>3, <1>4, <1>5, <1>6 DEF Unreadable

(***************************************************************************)
(* The theorems.                                                           *)
(***************************************************************************)

\* What a request makes of the text of an object, whatever the object holds:
\* the object itself, or an error if its type cannot be read.
THEOREM ReadBack ==
    ASSUME NEW t \in TypeNames, NEW object, ObjectOf(t, object)
    PROVE  ReconstituteObject(asJSON(t, object))
               = IF t \in Unreadable THEN Error ELSE Outcome("object", object)
BY ReadableRead, UnreadableFails

\* The invariant: the object has its type, the text is the object's, and what was
\* read was read from it.
IInv ==
    /\ type \in Types
    /\ ObjectOf(type, memory)
    /\ stored = asJSON(type, memory)
    /\ got = Unread \/ got = ReconstituteObject(stored)

\* Only types with a method are under test.
LEMMA TypeKnown ==
    ASSUME NEW t \in Types
    PROVE  t \in TypeNames
BY TypesAreKnown, TypesAre

\* The fields of an outcome.
LEMMA OutcomeFields ==
    ASSUME NEW kind, NEW object
    PROVE  Outcome(kind, object).kind = kind /\ Outcome(kind, object).object = object
BY DEF Outcome

\* A new object has its type.
LEMMA NewObjectIsOne ==
    ASSUME NEW t \in Types
    PROVE  ObjectOf(t, NewObject(t))
<1>1. PICK object, kinds : object = NewObject(t) /\ kinds = Kinds(t)
    OBVIOUS
<1>2. object = [f \in DOMAIN kinds |->
                   CASE kinds[f] = String -> f
                     [] kinds[f] = Bool -> FALSE
                     [] kinds[f] = Time -> Date
                     [] OTHER -> <<>>]
    BY <1>1 DEF NewObject
<1>3. object = [f \in DOMAIN kinds |-> object[f]]
    BY <1>2
<1>4. ASSUME NEW f \in DOMAIN kinds PROVE object[f] \in Contents(kinds[f])
  <2>1. PICK type_ : type_ = kinds[f]
      OBVIOUS
  <2>2. CASE type_ = String
    <3>1. object[f] = f
        BY <1>2, <2>1, <2>2, TypesDiffer
    <3>2. f \in PlainStrings
        BY <1>1 DEF PlainStrings
    <3> QED BY <2>1, <2>2, <3>1, <3>2, ContentsAre
  <2>3. CASE type_ = Bool
    <3>1. object[f] = FALSE
        BY <1>2, <2>1, <2>3, TypesDiffer
    <3> QED BY <2>1, <2>3, <3>1, ContentsAre
  <2>4. CASE type_ = Time
    <3>1. object[f] = Date
        BY <1>2, <2>1, <2>4, TypesDiffer
    <3> QED BY <2>1, <2>4, <3>1, ContentsAre
  <2>5. CASE type_ \notin {String, Bool, Time}
    <3>1. object[f] = <<>>
        BY <1>2, <2>1, <2>5
    <3>2. \A S : <<>> \in Seq(S)
        OBVIOUS
    <3>3. <<>> \in Contents(type_)
        BY <2>5, <3>2, Zenon DEF Contents
    <3> QED BY <2>1, <3>1, <3>3
  <2> QED BY <2>2, <2>3, <2>4, <2>5
<1> QED BY <1>1, <1>3, <1>4 DEF ObjectOf

\* Lists stay lists when an element is taken out or appended.
LEMMA RemovedType ==
    ASSUME NEW S, NEW s \in Seq(S), NEW i \in DOMAIN s
    PROVE  RemoveAt(s, i) \in Seq(S)
<1>1. i \in 1 .. Len(s) /\ Len(s) \in Nat
    OBVIOUS
<1>2. SubSeq(s, 1, i - 1) \in Seq(S) /\ SubSeq(s, i + 1, Len(s)) \in Seq(S)
    BY <1>1
<1> QED BY <1>2 DEF RemoveAt

LEMMA AppendType ==
    ASSUME NEW S, NEW s \in Seq(S), NEW x \in S
    PROVE  Append(s, x) \in Seq(S)
OBVIOUS

\* A vulnerability.
LEMMA FourElements ==
    ASSUME NEW S, NEW a \in S, NEW b \in S, NEW c \in S, NEW d \in S
    PROVE  <<a, b, c, d>> \in Seq(S)
OBVIOUS

\* An object keeps its type when a field is set to a value of the field's type.
LEMMA FieldSet ==
    ASSUME NEW t, NEW object, ObjectOf(t, object), NEW f \in DOMAIN Kinds(t),
           NEW value \in Contents(Kinds(t)[f])
    PROVE  ObjectOf(t, [object EXCEPT ![f] = value])
<1>1. PICK kinds : kinds = Kinds(t)
    OBVIOUS
<1>2. PICK changed : changed = [object EXCEPT ![f] = value]
    OBVIOUS
<1>3. object = [g \in DOMAIN kinds |-> object[g]]
    BY <1>1 DEF ObjectOf
<1>4. /\ changed = [g \in DOMAIN kinds |-> changed[g]]
      /\ \A g \in DOMAIN kinds : changed[g] = IF g = f THEN value ELSE object[g]
    BY <1>1, <1>2, <1>3
<1>5. \A g \in DOMAIN kinds : changed[g] \in Contents(kinds[g])
    BY <1>1, <1>4 DEF ObjectOf
<1> QED BY <1>1, <1>2, <1>4, <1>5 DEF ObjectOf

\* That is all that changes do.
LEMMA ChangesKeepType ==
    ASSUME IInv, NEW field \in DOMAIN memory,
           SetField(field) \/ AddToList(field) \/ RemoveFromList(field)
    PROVE  \E object : ObjectOf(type, object) /\ updateObject(object)
<1>1. PICK kinds, type_, held :
          kinds = Kinds(type) /\ type_ = kinds[field] /\ held = memory[field]
    OBVIOUS
<1>2. field \in DOMAIN kinds /\ held \in Contents(type_)
    BY <1>1 DEF IInv, ObjectOf
<1>3. ASSUME NEW value \in Contents(type_), updateObject([memory EXCEPT ![field] = value])
      PROVE  \E object : ObjectOf(type, object) /\ updateObject(object)
  <2>1. ObjectOf(type, [memory EXCEPT ![field] = value])
      BY <1>1, <1>2, FieldSet DEF IInv
  <2> QED BY <1>3, <2>1
<1>4. CASE SetField(field)
  <2>1. PICK value \in IF type_ = String THEN Words ELSE IF type_ = Bool THEN BOOLEAN ELSE {} :
            updateObject([memory EXCEPT ![field] = value])
      BY <1>1, <1>4 DEF SetField
  <2>2. value \in Contents(type_)
      BY <2>1, ContentsAre DEF PlainStrings
  <2> QED BY <1>3, <2>1, <2>2
<1>5. CASE AddToList(field)
  <2>1. PICK element \in CASE type_ = Strings -> Words \ {""}
                           [] type_ = ListOf(Byte) -> Bytes
                           [] type_ = ListOf(Bool) -> BOOLEAN
                           [] OTHER -> {<<"CVE", "link", "High", w>> : w \in Words} :
            updateObject([memory EXCEPT ![field] = Append(@, element)])
      BY <1>1, <1>5 DEF AddToList
  <2>2. IsList(type_)
      BY <1>1, <1>5 DEF AddToList
  <2>3. Append(held, element) \in Contents(type_)
    <3>1. CASE type_ = Strings
      <4>1. element \in Words
          BY <2>1, <3>1, TypesDiffer
      <4>2. element \in PlainStrings
          BY <4>1 DEF PlainStrings
      <4>3. Contents(type_) = Seq(PlainStrings)
          BY <3>1, ContentsAre
      <4> QED BY <1>2, <4>2, <4>3, AppendType
    <3>2. CASE type_ = ListOf(Byte)
      <4>1. element \in Bytes
          BY <2>1, <3>2, TypesDiffer
      <4> QED BY <1>2, <3>2, <4>1, ContentsAre
    <3>3. CASE type_ = ListOf(Bool)
      <4>1. element \in BOOLEAN
          BY <2>1, <3>3, TypesDiffer
      <4> QED BY <1>2, <3>3, <4>1, ContentsAre
    <3>4. CASE type_ \notin {Strings, ListOf(Byte), ListOf(Bool)}
      <4>1. PICK w \in Words : element = <<"CVE", "link", "High", w>>
          BY <2>1, <3>4
      <4>2. PICK S : S = PlainStrings \cup {"CVE", "link", "High"}
          OBVIOUS
      <4>3. element \in Seq(S)
        <5>1. "CVE" \in S /\ "link" \in S /\ "High" \in S /\ w \in S
            BY <4>1, <4>2 DEF PlainStrings
        <5> QED BY <4>1, <5>1, FourElements
      <4>4. type_ \notin {String, Time, Bool}
          BY <2>2, TypesDiffer
      <4>5. Contents(type_) = Seq(Seq(S))
          BY <3>4, <4>2, <4>4, Zenon DEF Contents
      <4>6. PICK T : T = Seq(S)
          OBVIOUS
      <4> QED BY <1>2, <4>3, <4>5, <4>6, AppendType
    <3> QED BY <3>1, <3>2, <3>3, <3>4
  <2>4. updateObject([memory EXCEPT ![field] = Append(held, element)])
      BY <1>1, <2>1
  <2> QED BY <1>3, <2>3, <2>4
<1>6. CASE RemoveFromList(field)
  <2>1. type_ = Strings
      BY <1>1, <1>6 DEF RemoveFromList
  <2>2. PICK i \in DOMAIN held : updateObject([memory EXCEPT ![field] = RemoveAt(held, i)])
      BY <1>1, <1>6 DEF RemoveFromList
  <2>3. RemoveAt(held, i) \in Contents(type_)
      BY <1>2, <2>1, <2>2, ContentsAre, RemovedType
  <2> QED BY <1>3, <2>2, <2>3
<1> QED BY <1>4, <1>5, <1>6

\* The invariant holds of the first states.
LEMMA InitEstablishes ==
    ASSUME Init
    PROVE  IInv
BY NewObjectIsOne DEF Init, IInv

\* Every step preserves it.
LEMMA StepPreserves ==
    ASSUME IInv, [Next]_vars
    PROVE  IInv'
<1>1. CASE Change
  <2>1. PICK field \in DOMAIN memory :
            SetField(field) \/ AddToList(field) \/ RemoveFromList(field)
      BY <1>1 DEF Change
  <2>2. PICK object : ObjectOf(type, object) /\ updateObject(object)
      BY <2>1, ChangesKeepType
  <2>3. type' = type /\ memory' = object /\ stored' = asJSON(type, object) /\ got' = Unread
      BY <2>2 DEF updateObject
  <2> QED BY <2>2, <2>3 DEF IInv
<1>2. CASE getObject
    BY <1>2 DEF getObject, IInv
<1>3. CASE UNCHANGED vars
    BY <1>3 DEF vars, IInv
<1> QED BY <1>1, <1>2, <1>3 DEF Next

\* It always holds.
LEMMA Invariance == Spec => []IInv
BY InitEstablishes, StepPreserves, PTL DEF Spec

\* What was got, if anything was.
LEMMA GotIs ==
    ASSUME IInv
    PROVE  \/ got = Unread
           \/ type \in Unreadable /\ got = Error
           \/ type \notin Unreadable /\ got = Outcome("object", memory)
BY TypeKnown, ReadBack DEF IInv

\* The state of an object keeps its type: the fields of its type, and an
\* outcome of reading that has the fields of the object, if there is one.
THEOREM TypeOKHolds == Spec => []TypeOK
<1>1. ASSUME IInv PROVE TypeOK
  <2>1. DOMAIN memory = DOMAIN Kinds(type)
      BY <1>1 DEF IInv, ObjectOf
  <2>2. CASE got = Unread
      BY <1>1, <2>1, <2>2, OutcomeFields DEF Unread, IInv, TypeOK
  <2>3. CASE got = Error
      BY <1>1, <2>1, <2>3, OutcomeFields DEF Error, IInv, TypeOK
  <2>4. CASE got = Outcome("object", memory)
      BY <1>1, <2>1, <2>4, OutcomeFields DEF IInv, TypeOK
  <2> QED BY <1>1, <2>2, <2>3, <2>4, GotIs
<1> QED BY <1>1, Invariance, PTL

\* A request that reads an object from redis gets the object that was written
\* last, as it would with -inmem.
THEOREM ObjectsRoundTrip == Spec => []RoundTrips
<1>1. ASSUME IInv PROVE RoundTrips
  <2>1. CASE got = Unread
      BY <2>1, OutcomeFields DEF Unread, RoundTrips
  <2>2. CASE got # Unread
      BY <1>1, <2>2, GotIs DEF RoundTrips
  <2> QED BY <2>1, <2>2
<1> QED BY <1>1, Invariance, PTL

\* Of an object that cannot be made again, a request gets an error, never
\* another object and never a panic.
THEOREM ObjectsNeverMisread == Spec => []NeverMisread
<1>1. ASSUME IInv PROVE NeverMisread
  <2>1. CASE got = Unread
      BY <2>1, OutcomeFields DEF Unread, NeverMisread
  <2>2. CASE got # Unread
      BY <1>1, <2>2, GotIs DEF NeverMisread
  <2> QED BY <2>1, <2>2
<1> QED BY <1>1, Invariance, PTL

=============================================================================
