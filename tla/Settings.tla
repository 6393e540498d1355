------------------------------ MODULE Settings ------------------------------
(***************************************************************************)
(* The settings as pure functions of the environment: the helpers of       *)
(* common/config.ts, and the policies and the store that                   *)
(* attestation.module.ts chooses.                                          *)
(*                                                                         *)
(* An environment is a record from the names of variables to raw values:   *)
(* Unset, the texts Empty ("") and Spaces (" "), Malformed (a text that no *)
(* helper accepts), or a proper value: a number, a Boolean, a word, or a   *)
(* set of hexadecimal texts.  Such a text is its significant digits, the   *)
(* zeros before them, and whether it has colons or capitals.               *)
(***************************************************************************)
EXTENDS Naturals, FiniteSets

CONSTANTS Unset, Empty, Spaces, Malformed,
          Thrown,        \* what a helper that throws yields
          AnyRoot,       \* trustedRootPublicKeys = null
          GoogleRoots,   \* the keys of google-roots.ts
          FullDigests    \* the hexadecimal texts of 64 digits, in plain form

Blank == {Unset, Empty, Spaces}

ASSUME ValuesAssumption ==
    Thrown \notin BOOLEAN /\ AnyRoot # GoogleRoots /\ "production" \notin Blank

\* The variables that are modelled; an environment has a value, or Unset, for each.
Names ==
    {"NODE_ENV", "ATTESTATION_PACKAGE_NAME", "AEGIS_PACKAGE_NAME",
     "ATTESTATION_SIGNING_CERT_SHA256", "AEGIS_SIGNING_CERT_SHA256",
     "ATTESTATION_ALLOW_SOFTWARE", "AEGIS_EMULATOR_MODE",
     "ATTESTATION_REVOKED_SERIALS", "AEGIS_REVOKED_SERIALS",
     "ATTESTATION_DEVICE_POLICY", "AEGIS_DEVICE_POLICY",
     "ATTESTATION_KV_REST_URL", "AEGIS_KV_REST_URL",
     "ATTESTATION_KV_REST_TOKEN", "AEGIS_KV_REST_TOKEN",
     "ALLOWED_TARGET_HOSTS", "ALLOWED_ROUTES", "ALLOW_HTTP_UPSTREAM",
     "ENCRYPT_RESPONSE", "THROTTLE_LIMIT", "UPSTREAM_TIMEOUT_MS"}

\* The fallback to an alias with ??, and a mutant of OrElse.
IfUnsetThen(raw, alias) == IF raw = Unset THEN alias ELSE raw

\* The fallback to an alias with ||.
OrElse(raw, alias) == IF raw \in {Unset, Empty} THEN alias ELSE raw

Trim(raw) == IF raw \in Blank THEN Empty ELSE raw

-----------------------------------------------------------------------------
(* common/config.ts                                                        *)

\* Mutant of PositiveInteger: zero passes.
AnyInteger(raw, fallback) ==
    IF raw \in Blank THEN fallback ELSE IF raw \in Nat THEN raw ELSE Thrown

PositiveInteger(raw, fallback) ==
    IF raw \in Blank THEN fallback ELSE IF raw \in Nat \ {0} THEN raw ELSE Thrown

\* Mutant of StrictBoolean: whatever is not true is false.
Truthy(raw, fallback) == IF raw \in Blank THEN fallback ELSE raw = TRUE

StrictBoolean(raw, fallback) ==
    IF raw \in Blank THEN fallback ELSE IF raw \in BOOLEAN THEN raw ELSE Thrown

EnumValue(raw, allowed, fallback) ==
    IF raw \in Blank THEN fallback ELSE IF raw \in allowed THEN raw ELSE Thrown

-----------------------------------------------------------------------------
(* attestation.module.ts                                                   *)

Plain(text) == [text EXCEPT !.styled = FALSE]

HexSet(raw) == IF raw \in Blank THEN {} ELSE {Plain(t) : t \in raw}

\* Mutant of SerialSet: serials are read like digests, their zeros kept.
ZerosKept(raw) == HexSet(raw)

SerialSet(raw) == {[t EXCEPT !.zeros = 0] : t \in HexSet(raw)}

\* s || a of two Booleans that may throw; a is not read when s is true.
EitherFlag(s, a) == IF s = FALSE THEN a ELSE s

InProduction(env) == env.NODE_ENV = "production"

SoftwareAllowed(env) ==
    EitherFlag(StrictBoolean(env.ATTESTATION_ALLOW_SOFTWARE, FALSE),
               StrictBoolean(env.AEGIS_EMULATOR_MODE, FALSE))

PackageName(env) == Trim(OrElse(env.ATTESTATION_PACKAGE_NAME, env.AEGIS_PACKAGE_NAME))

Digests(env) ==
    HexSet(OrElse(env.ATTESTATION_SIGNING_CERT_SHA256, env.AEGIS_SIGNING_CERT_SHA256))

PolicyFails(env) ==
    \/ SoftwareAllowed(env) = Thrown
    \/ SoftwareAllowed(env) = TRUE /\ InProduction(env)
    \/ ~(Digests(env) \subseteq FullDigests)
    \/ ~(PackageName(env) = Empty <=> Digests(env) = {})

PolicyOf(env) ==
    LET software == SoftwareAllowed(env)
    IN  [configured            |-> Digests(env) # {},
         trustedRootPublicKeys |-> IF software THEN AnyRoot ELSE GoogleRoots,
         packageName           |-> PackageName(env),
         signingCertDigests    |-> Digests(env),
         minSecurityLevel      |-> IF software THEN 0 ELSE 1,
         requireVerifiedBoot   |-> ~software,
         revokedSerials        |-> SerialSet(OrElse(env.ATTESTATION_REVOKED_SERIALS,
                                                    env.AEGIS_REVOKED_SERIALS))]

PolicyFromConfig(env) == IF PolicyFails(env) THEN Thrown ELSE PolicyOf(env)

\* The policy after an error: the endpoints report 503.
Disabled ==
    [configured |-> FALSE, trustedRootPublicKeys |-> {}, packageName |-> Empty,
     signingCertDigests |-> {}, minSecurityLevel |-> 1, requireVerifiedBoot |-> TRUE,
     revokedSerials |-> {}]

SafePolicyFromConfig(env) ==
    LET policy == PolicyFromConfig(env)
    IN  IF policy = Thrown THEN Disabled ELSE policy

\* A variable that is set to the empty text hides its alias.
DevicePolicyFromConfig(env) ==
    EnumValue(IfUnsetThen(env.ATTESTATION_DEVICE_POLICY, env.AEGIS_DEVICE_POLICY),
              {"required", "report"}, "required")

\* One of the two without the other is an error, which ends in memory as well.
SafeKvStoreFromConfig(env) ==
    LET url   == Trim(OrElse(env.ATTESTATION_KV_REST_URL, env.AEGIS_KV_REST_URL))
        token == Trim(OrElse(env.ATTESTATION_KV_REST_TOKEN, env.AEGIS_KV_REST_TOKEN))
    IN  IF url # Empty /\ token # Empty THEN "upstash" ELSE "memory"
=============================================================================
