-------------------------------- MODULE Tokens --------------------------------
(***************************************************************************)
(* What makes two items the same item: tokens.py and _utils.py derive the  *)
(* token of an item, storage/codec.py encodes it for a disk backend.  The  *)
(* memory backend looks tokens up in dictionaries, so Python's equality    *)
(* decides; the disk backends compare the encoded bytes.                   *)
(*                                                                         *)
(* A value is [type, value, shared].  Two containers of one value hold     *)
(* equal parts; shared says that the parts are one object, which pickle    *)
(* writes once and refers back to.                                         *)
(***************************************************************************)
EXTENDS Integers

ScalarType    == {"none", "bool", "int", "float", "str", "bytes"}
ContainerType == {"list", "tuple"}
NumericType   == {"bool", "int", "float"}

(* canonicalize_token: a list becomes a tuple of its canonical parts.      *)
CanonicalToken(v) ==
    IF v.type \in ScalarType THEN v ELSE [v EXCEPT !.type = "tuple"]

(* The dictionary key a token is: == and hash of Python. *)
MemoryToken(v) ==
    LET token == CanonicalToken(v)
    IN [type  |-> IF token.type \in NumericType THEN "number" ELSE token.type,
        value |-> token.value]

-----------------------------------------------------------------------------
Tag == [none |-> "n", bool |-> "b", int |-> "i", float |-> "f", str |-> "s", bytes |-> "y",
        tuple |-> "p"]

(* to_blob *)
Blob(token) ==
    [tag |-> Tag[token.type], payload |-> token.value,
     memo |-> IF token.type \in ContainerType THEN token.shared ELSE FALSE]

DiskToken(v) == Blob(CanonicalToken(v))
===============================================================================
