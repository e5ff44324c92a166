---------------------------- MODULE JsonDocuments ----------------------------
(***************************************************************************)
(* What Endpoints takes as constants of JSON: serde_json's reading of a    *)
(* document as a type, and the documents an honest server answers with.    *)
(* An unknown field is ignored and a value of another kind is an error of  *)
(* the whole answer.  serde_json also reads a struct off an array of its   *)
(* fields; no document here is one, and one counts as of another kind.     *)
(***************************************************************************)
EXTENDS Endpoints

(***************************************************************************)
(* serde_json                                                              *)
(***************************************************************************)
RECURSIVE SerdeDefault(_)
SerdeDefault(type) ==
  CASE type.is = "text" -> ""
    [] type.is = "flag" -> FALSE
    [] type.is \in {"count", "int", "real"} -> 0
    [] type.is = "many" -> <<>>
    [] type.is = "table" -> Empty
    [] type.is = "struct" ->
         [f \in DOMAIN type.fields |->
            IF type.fields[f].kind = "option" THEN None ELSE SerdeDefault(type.fields[f].of)]
    [] OTHER -> None

Scalar(value, type) ==
  CASE type.is \in {"text", "flag"} -> value.is = type.is
    [] type.is = "count" -> value.is = "whole"
    [] type.is = "int" -> value.is \in {"whole", "negative"}
    [] type.is = "real" -> value.is \in {"whole", "negative", "fraction"}
    [] type.is = "closed" -> value.is = "text" /\ value.value \in type.texts
    [] OTHER -> FALSE

RECURSIVE SerdeDeserialize(_, _)
SerdeDeserialize(value, type) ==
  LET whole(parts) ==     \* all of them, or an error
        IF \E p \in DOMAIN parts : ~parts[p].ok THEN Err("decode")
        ELSE Ok([p \in DOMAIN parts |-> parts[p].value])
      field(f) ==
        LET kind == type.fields[f].kind
            of == type.fields[f].of
        IN IF f \notin DOMAIN value.fields
           THEN IF kind = "required" THEN Err("decode")
                ELSE Ok(IF kind = "option" THEN None ELSE SerdeDefault(of))
           ELSE IF value.fields[f] = Null /\ kind \in {"lenient", "option"}
           THEN Ok(IF kind = "option" THEN None ELSE SerdeDefault(of))
           ELSE SerdeDeserialize(value.fields[f], of)
  IN CASE type.is = "any" -> Ok(value)
       [] type.is = "many" ->
            IF value.is # "list" THEN Err("decode")
            ELSE whole([i \in DOMAIN value.items |-> SerdeDeserialize(value.items[i], type.of)])
       [] type.is = "table" ->
            IF value.is # "object" THEN Err("decode")
            ELSE whole([k \in DOMAIN value.fields |-> SerdeDeserialize(value.fields[k], type.of)])
       [] type.is = "struct" ->
            IF value.is # "object" THEN Err("decode")
            ELSE whole([f \in DOMAIN type.fields |-> field(f)])
       [] type.is = "oneof" ->
            LET fits == {t \in type.types : SerdeDeserialize(value, t).ok}
            IN IF fits = {} THEN Err("decode") ELSE SerdeDeserialize(value, CHOOSE t \in fits : TRUE)
       [] OTHER -> IF Scalar(value, type) THEN Ok(value.value) ELSE Err("decode")

---------------------------------------------------------------------------
(***************************************************************************)
(* A JSON answer is the honest document of its type, in which one field    *)
(* may be null, missing or of another kind.                                *)
(***************************************************************************)
RECURSIVE Sample(_)
Sample(type) ==
  CASE type.is = "text" -> [is |-> "text", value |-> "x"]
    [] type.is = "closed" -> [is |-> "text", value |-> CHOOSE t \in type.texts : TRUE]
    [] type.is = "flag" -> [is |-> "flag", value |-> TRUE]
    [] type.is \in {"count", "int", "real"} -> [is |-> "whole", value |-> 1]
    [] type.is = "many" -> [is |-> "list", items |-> <<Sample(type.of)>>]
    [] type.is = "table" -> [is |-> "object", fields |-> [k \in {"k"} |-> Sample(type.of)]]
    [] type.is = "struct" ->
         [is |-> "object", fields |-> [f \in DOMAIN type.fields |-> Sample(type.fields[f].of)]]
    [] type.is = "oneof" -> Sample(CHOOSE t \in type.types : t.is # "text")
    [] OTHER -> Null

\* The fields of a document, each by the names that lead to it.
RECURSIVE Paths(_)
Paths(type) ==
  CASE type.is \in {"many", "table"} -> Paths(type.of)
    [] type.is = "struct" ->
         UNION {{<<f>>} \cup {<<f>> \o p : p \in Paths(type.fields[f].of)} :
                f \in DOMAIN type.fields}
    [] type.is = "oneof" -> Paths(CHOOSE t \in type.types : t.is # "text")
    [] OTHER -> {}

RECURSIVE Changed(_, _, _)
Changed(value, path, to) ==
  IF path = <<>> THEN value
  ELSE IF value.is = "list" THEN [value EXCEPT !.items = <<Changed(@[1], path, to)>>]
  ELSE IF value.is = "object" /\ path[1] \notin DOMAIN value.fields
  THEN [value EXCEPT !.fields.k = Changed(@, path, to)]
  ELSE IF Len(path) > 1 THEN [value EXCEPT !.fields[path[1]] = Changed(@, Tail(path), to)]
  ELSE CASE to = "absent" -> [value EXCEPT !.fields = Without(@, {path[1]})]
         [] to = "null" -> [value EXCEPT !.fields[path[1]] = Null]
         [] to = "other" -> [value EXCEPT !.fields[path[1]] = [is |-> "other"]]

\* What a server sends is what it is, whatever a watcher takes it for.
SentType(c, posted) ==
  IF c.op # "client" THEN DocumentType(c, posted)
  ELSE IF c.probed = "worker" THEN WorkerStatusMessage ELSE ClusterStatusMessage

\* An honest document: `request` is the SDK's own field, a gateway's health
\* says that it is one's.
Honest(c, posted) ==
  LET sample == Sample(SentType(c, posted))
  IN CASE c.op \in Generations -> [sample EXCEPT !.fields = Without(@, {"request"})]
       [] c.op = "capacity" ->
            [sample EXCEPT !.fields.type = [is |-> "text", value |-> "gateway"]]
       [] OTHER -> sample

\* The document of an answer: honest but for the one change, bare where an
\* older gateway leaves the envelope of a list out.
AnsweredDocument(c, posted, answer) ==
  IF answer.change.to = "bare" THEN Sample(Many(Element(c.op)))
  ELSE Changed(Honest(c, posted), answer.change.path, answer.change.to)
=============================================================================
