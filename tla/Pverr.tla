------------------------------- MODULE Pverr -------------------------------
(***************************************************************************)
(* The SDK's error taxonomy (proxmox/pverr) and the transport's reading of *)
(* a PVE response (api.readResponse).  A failure is represented by the     *)
(* sentinel errors.Is would find: "transient", "ticketExpired", and so on; *)
(* "none" is an error that wraps no sentinel and "nil" is no error at all. *)
(***************************************************************************)
EXTENDS Naturals

Sentinels == {"notFound", "conflict", "unauthorized", "ticketExpired",
              "forbidden", "taskFailed", "unsupported", "transient"}

(***************************************************************************)
(* Every value an operation of the transport may return as its error:      *)
(* a sentinel, an unclassified API error, a decoding error, the caller's   *)
(* own context error, or nil.                                              *)
(***************************************************************************)
ErrKinds == Sentinels \cup {"none", "decode", "ctx", "nil"}

(***************************************************************************)
(* What Classify tells apart in a response message: whether it names an    *)
(* expired or invalid ticket.                                              *)
(***************************************************************************)
Messages == {"ticket", "other"}

IsSuccess(status) == status \in 200..299

Classify(status, msg, cause) ==
    IF cause = "net"
    THEN "transient"
    ELSE CASE status = 404 -> "notFound"
           [] status = 409 -> "conflict"
           [] status = 401 /\ msg = "ticket" -> "ticketExpired"
           [] status = 401 /\ msg # "ticket" -> "unauthorized"
           [] status = 403 -> "forbidden"
           [] status >= 500 -> "transient"
           [] OTHER -> "none"

(***************************************************************************)
(* A failure without a response is transient, whatever caused it: a dial   *)
(* error, a timeout, but also a cancelled context or an unencodable body.  *)
(***************************************************************************)
ClassifyNetError == "transient"

(***************************************************************************)
(* A response: its status, its body ("cut" when reading it fails,          *)
(* "garbled" when it is not JSON, "mistyped" when its data does not decode *)
(* into the caller's value; "duplex" is the stream of an upgraded          *)
(* connection) and its message.                                            *)
(***************************************************************************)
Bodies == {"json", "empty", "cut", "garbled", "mistyped", "duplex"}

Response == [status : 100..599, body : Bodies, msg : Messages]

(***************************************************************************)
(* readResponse.  "out" tells whether the caller passed a value to decode  *)
(* into.  A body that is not JSON loses its message.                       *)
(***************************************************************************)
ReadResponse(rep, out) ==
    LET msg == IF rep.body \in {"garbled", "empty"} THEN "other" ELSE rep.msg
    IN  IF rep.body = "cut"
        THEN ClassifyNetError
        ELSE IF ~ IsSuccess(rep.status)
        THEN Classify(rep.status, msg, "nil")
        ELSE IF out /\ rep.body \in {"garbled", "mistyped"}
        THEN "decode"
        ELSE "nil"
=============================================================================
