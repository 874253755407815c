--------------------------- MODULE RequestListener ---------------------------
(***************************************************************************)
(* NormalizationRequestListener.poll: what becomes of a message body taken *)
(* off the Redis list.  BRPOP has already removed it, so a message that is *)
(* dropped is gone.                                                        *)
(*                                                                         *)
(* A body is abstracted to three facts: whether from_json accepts it, who  *)
(* it is addressed to, and the form of its date field.  from_json does not *)
(* check types, so the date may be a JSON number; the pattern match of the *)
(* validation then raises outside the try block.                           *)
(***************************************************************************)

CONSTANT Receiver   \* [REDIS].RECEIVER of this daemon

DateForm == {"yyyymmdd", "otherText", "notText"}

IsEnvelope(e) ==
    /\ DOMAIN e = {"parses", "receiver", "date"}
    /\ e.parses \in BOOLEAN
    /\ e.date \in DateForm

Accepts(e) == e.parses /\ e.receiver = Receiver /\ e.date = "yyyymmdd"
Raises(e)  == e.parses /\ e.receiver = Receiver /\ e.date = "notText"
Drops(e)   == ~Accepts(e) /\ ~Raises(e)

=============================================================================
