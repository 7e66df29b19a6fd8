------------------------------ MODULE HttpCodec ------------------------------
(***************************************************************************)
(* What stands between a connection and a use case: the decoding of a      *)
(* request body (pkg/httpx) and the status code of an outcome (httpapi).   *)
(* A body is a sequence of chunks: values, well formed or not, and blanks. *)
(***************************************************************************)
EXTENDS Integers, Sequences, FiniteSets

CONSTANTS
    maxBodyBytes,  \* the limit of http.MaxBytesReader
    MaxChunks,     \* bound on the chunks of a body
    MaxChunkBytes  \* bound on the size of a chunk

ASSUME CodecAssumption ==
    maxBodyBytes \in Nat /\ MaxChunks \in Nat /\ MaxChunkBytes \in Nat

Chunk == [kind : {"blank", "object", "null", "unknownField", "mistyped",
                  "malformed"},
          bytes : 1 .. MaxChunkBytes]

Bodies == UNION {[1 .. n -> Chunk] : n \in 0 .. MaxChunks}

(* The bytes up to the end of chunk i.                                     *)
BytesTo(body) ==
    LET to[i \in 0 .. Len(body)] ==
            IF i = 0 THEN 0 ELSE to[i - 1] + body[i].bytes
    IN  to

(* The values among the chunks from chunk i on.                            *)
Values(body, i) == {j \in i .. Len(body) : body[j].kind # "blank"}

First(S) == CHOOSE i \in S : \A j \in S : i <= j

(* The body is within the limit to its last byte and holds one value, of   *)
(* one of the kinds named.                                                 *)
OneValue(body, kinds) ==
    /\ BytesTo(body)[Len(body)] <= maxBodyBytes
    /\ Cardinality(Values(body, 1)) = 1
    /\ \A i \in Values(body, 1) : body[i].kind \in kinds

(* "exactly one JSON object": what the comment of DecodeJSON has it accept. *)
OneObject(body) == OneValue(body, {"object"})

(* json.Decoder.Decode: blanks are skipped, then one value is read, unless *)
(* the limit is hit before its end.  null leaves the struct as it is.      *)
Decode(body, i) ==
    LET n   == IF Values(body, i) = {} THEN Len(body)
               ELSE First(Values(body, i))
    IN  IF BytesTo(body)[n] > maxBodyBytes THEN "MaxBytesError"
        ELSE IF Values(body, i) = {} THEN "EOF"
        ELSE IF body[n].kind \in {"object", "null"} THEN "nil"
        ELSE body[n].kind

(* Mutant: what follows the first value is not looked at.                  *)
DecodeJSONPrefix(body) ==
    IF Decode(body, 1) # "nil" THEN "ErrBadRequest" ELSE "nil"

(* A first Decode must succeed and a second one must find the end.         *)
DecodeJSON(body) ==
    IF Decode(body, 1) # "nil" THEN "ErrBadRequest"
    ELSE IF Decode(body, First(Values(body, 1)) + 1) # "EOF"
    THEN "ErrBadRequest"
    ELSE "nil"

(* What a handler has got after decoding: an error, or a struct that null  *)
(* has left at its zero values, or one with the fields of an object.       *)
Request(body) ==
    IF DecodeJSON(body) # "nil" THEN "none"
    ELSE IF body[First(Values(body, 1))].kind = "null" THEN "zero"
    ELSE "filled"

-----------------------------------------------------------------------------
(* Responses.                                                              *)

(* The status each handler writes when its use case returns nil.           *)
success == [Register |-> 201, Login |-> 200, Refresh |-> 200, Logout |-> 204]

(* The table of writeError; a body that is refused is a 400 as well.       *)
mappings ==
    [ErrBadRequest |-> 400, ErrInvalidEmail |-> 400, ErrWeakPassword |-> 400,
     ErrPasswordTooLong |-> 400, ErrEmailTaken |-> 409,
     ErrInvalidCredentials |-> 401, ErrUserSuspended |-> 403,
     ErrRefreshTokenNotFound |-> 401, ErrRefreshTokenExpired |-> 401,
     ErrRefreshTokenRevoked |-> 401, ErrUserNotFound |-> 404]

(* Anything unmapped is an opaque 500.                                     *)
Status(o, err) ==
    IF err = "nil" THEN success[o]
    ELSE IF err \in DOMAIN mappings THEN mappings[err]
    ELSE 500

=============================================================================
