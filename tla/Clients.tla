------------------------------ MODULE Clients -------------------------------
(***************************************************************************)
(* What the four clients (clients/web, android, ios, flutter) make of the  *)
(* answer to a call.  A call has a fresh AES key, here a number.           *)
(*                                                                         *)
(* An answer is its HTTP status code, the marker Encrypted (a Boolean,     *)
(* Absent, or Malformed), how much of an envelope it has ("none", "part",  *)
(* or "whole": IV and Payload are texts), the key under which this is      *)
(* sealed, and the content, under the seal or in plain: a status, headers  *)
(* and data, or Malformed.  Headers are a function from names to kinds of  *)
(* values: "text", "list" (of texts) or "object"; that Android turns a     *)
(* text into a list of one is left out.                                    *)
(***************************************************************************)
EXTENDS Naturals

CONSTANTS Absent,    \* no property of this name
          Malformed,
          Failed     \* send throws

Kinds == {"web", "android", "ios", "flutter"}

\* Mutant of Opens: a plain answer is taken from anyone.
OpensPlain(answer, key, requireEncrypted) ==
    \/ answer.encrypted = FALSE /\ answer.envelope = "none"
    \/ answer.encrypted \in {TRUE, Absent} /\ answer.envelope = "whole" /\ answer.key = key

\* A plain answer must be allowed and must not look sealed; a sealed one must
\* have the marker, or none (the legacy envelope), and the call's own key.
Opens(answer, key, requireEncrypted) ==
    \/ answer.encrypted = FALSE /\ ~requireEncrypted /\ answer.envelope = "none"
    \/ answer.encrypted \in {TRUE, Absent} /\ answer.envelope = "whole" /\ answer.key = key

\* A complete content with a status that HTTP defines.
Complete(content) == content # Malformed /\ content.status \in 100..599

\* The web client takes every status of success, the others only 200.
WebReceived(answer, key, requireEncrypted) ==
    IF /\ answer.code \in 200..299
       /\ Opens(answer, key, requireEncrypted)
       /\ Complete(answer.content)
    THEN answer.content ELSE Failed

\* The Android client fails on a header that is neither a text nor a list of texts.
AndroidReceived(answer, key, requireEncrypted) ==
    IF /\ answer.code = 200
       /\ Opens(answer, key, requireEncrypted)
       /\ Complete(answer.content)
       /\ \A name \in DOMAIN answer.content.headers :
             answer.content.headers[name] \in {"text", "list"}
    THEN answer.content ELSE Failed

IosReceived(answer, key, requireEncrypted) ==
    IF /\ answer.code = 200
       /\ Opens(answer, key, requireEncrypted)
       /\ Complete(answer.content)
    THEN answer.content ELSE Failed

FlutterReceived(answer, key, requireEncrypted) == IosReceived(answer, key, requireEncrypted)

\* The end of send().
Received(kind, answer, key, requireEncrypted) ==
    CASE kind = "web"     -> WebReceived(answer, key, requireEncrypted)
      [] kind = "android" -> AndroidReceived(answer, key, requireEncrypted)
      [] kind = "ios"     -> IosReceived(answer, key, requireEncrypted)
      [] kind = "flutter" -> FlutterReceived(answer, key, requireEncrypted)
=============================================================================
