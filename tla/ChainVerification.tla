------------------------- MODULE ChainVerification --------------------------
(***************************************************************************)
(* AttestationService.verify: the checks of an Android key attestation, in *)
(* the order of the code, as a function of the chain, the challenge and    *)
(* the policy (see Settings).  A certificate is the key it certifies, the  *)
(* key that signed it, whether it is in its validity period, its serial    *)
(* number, and, in a leaf, the attestation record.                         *)
(*                                                                         *)
(* Security levels are 0 (software), 1 (trusted environment), 2            *)
(* (StrongBox).  NoRecord, and NoApp and NoRoot inside a record, stand for *)
(* what the certificate lacks.                                             *)
(***************************************************************************)
EXTENDS Naturals, FiniteSets, Sequences, Settings

CONSTANTS Unreadable,   \* bytes that do not parse as a certificate
          NoRecord, NoApp, NoRoot

Lesser(a, b) == IF a < b THEN a ELSE b

\* Each certificate is signed by the next, the last one by itself.
SignedByNext(chain) ==
    \A i \in DOMAIN chain : chain[i].signer = chain[Lesser(i + 1, Len(chain))].key

RootTrusted(chain, policy) ==
    \/ policy.trustedRootPublicKeys = AnyRoot
    \/ chain[Len(chain)].key \in policy.trustedRootPublicKeys

AllInTime(chain) == \A i \in DOMAIN chain : chain[i].inTime

Serial(cert) == [Plain(cert.serial) EXCEPT !.zeros = 0]

NoneRevoked(chain, policy) ==
    \A i \in DOMAIN chain : Serial(chain[i]) \notin policy.revokedSerials

\* The lower of the two levels that the record states.
Level(record) == Lesser(record.attestationLevel, record.keymasterLevel)

\* The hardware-enforced copy of the application's identity is preferred.
AppId(record) == IF record.teeApp # NoApp THEN record.teeApp ELSE record.softwareApp

\* The checks of the chain itself.
ChainVerdict(chain, policy) ==
    IF Len(chain) < 2 THEN "NOT_A_CHAIN"
    ELSE IF \E i \in DOMAIN chain : chain[i] = Unreadable THEN "MALFORMED"
    ELSE IF ~SignedByNext(chain) THEN "CHAIN_SIGNATURE"
    ELSE IF ~RootTrusted(chain, policy) THEN "UNTRUSTED_ROOT"
    ELSE IF ~AllInTime(chain) THEN "CHAIN_SIGNATURE"
    ELSE IF ~NoneRevoked(chain, policy) THEN "REVOKED"
    ELSE "ok"

\* The checks of the device: what it attests, and how it was started.
DeviceVerdict(record, challenge, policy) ==
    IF record = NoRecord THEN "MALFORMED"
    ELSE IF record.challenge # challenge THEN "CHALLENGE_MISMATCH"
    ELSE IF Level(record) < policy.minSecurityLevel THEN "SECURITY_LEVEL"
    ELSE IF ~policy.requireVerifiedBoot THEN "ok"
    ELSE IF record.root = NoRoot THEN "MALFORMED"
    ELSE IF ~record.root.locked THEN "BOOTLOADER_UNLOCKED"
    ELSE IF ~record.root.verified THEN "BOOT_NOT_VERIFIED"
    ELSE "ok"

\* Mutant of AppVerdict: one allowed signer is enough, and none is no objection.
AppWithOneSigner(app, policy) ==
    IF app = NoApp THEN "MALFORMED"
    ELSE IF policy.packageName \notin app.packages THEN "PACKAGE_MISMATCH"
    ELSE IF app.digests # {} /\ app.digests \cap policy.signingCertDigests = {}
         THEN "SIGNER_NOT_ALLOWED"
    ELSE "ok"

\* The checks of the application that made the key.
AppVerdict(app, policy) ==
    IF app = NoApp THEN "MALFORMED"
    ELSE IF policy.packageName \notin app.packages THEN "PACKAGE_MISMATCH"
    ELSE IF app.digests = {} \/ ~(app.digests \subseteq policy.signingCertDigests)
         THEN "SIGNER_NOT_ALLOWED"
    ELSE "ok"

\* The code of the first check that rejects, or "ok": the key is enrolled.
Verdict(chain, challenge, policy) ==
    LET first  == ChainVerdict(chain, policy)
        second == DeviceVerdict(chain[1].record, challenge, policy)
    IN  IF first # "ok" THEN first
        ELSE IF second # "ok" THEN second
        ELSE AppVerdict(AppId(chain[1].record), policy)
=============================================================================
