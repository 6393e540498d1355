--------------------------- MODULE ServiceProofs ----------------------------
(***************************************************************************)
(* Theorems about Service, for every set of environments, attestations,    *)
(* calls, answers and addresses.                                           *)
(*                                                                         *)
(* First, accepted means genuine.  Genuine speaks of the settings and of   *)
(* the certificates as they are; the code makes a policy of the settings,  *)
(* and compares that with the chain.  The lemmas go through the policy and *)
(* through each check.                                                     *)
(*                                                                         *)
(* Then a call, from Begin to Receive: CInv says what is known of it at    *)
(* each point, of the answers that can be repeated, and of the counters.   *)
(* From it follow what is sent upstream and what comes back, and that      *)
(* Service implements Relay.                                               *)
(***************************************************************************)
EXTENDS Service, InsertionMapProofs, SequenceTheorems

-----------------------------------------------------------------------------
(* The settings and the documented conditions of an attestation.           *)

\* The settings that count, as the code reads them.
LEMMA EffectiveSettings ==
    ASSUME NEW e \in Environments
    PROVE  /\ Package(e) = OrElse(e.ATTESTATION_PACKAGE_NAME, e.AEGIS_PACKAGE_NAME)
           /\ Signers(e) = OrElse(e.ATTESTATION_SIGNING_CERT_SHA256,
                                  e.AEGIS_SIGNING_CERT_SHA256)
           /\ Revoked(e) = OrElse(e.ATTESTATION_REVOKED_SERIALS, e.AEGIS_REVOKED_SERIALS)
           /\ Signers(e) \in Blank \/ \A t \in Signers(e) : IsHex(t)
           /\ Revoked(e) \in Blank \/ \A t \in Revoked(e) : IsHex(t)
<1>1. Package(e) = OrElse(e.ATTESTATION_PACKAGE_NAME, e.AEGIS_PACKAGE_NAME)
  BY DEF Effective, Package, OrElse
<1>2. Signers(e) = OrElse(e.ATTESTATION_SIGNING_CERT_SHA256, e.AEGIS_SIGNING_CERT_SHA256)
  BY DEF Effective, Signers, OrElse
<1>3. Revoked(e) = OrElse(e.ATTESTATION_REVOKED_SERIALS, e.AEGIS_REVOKED_SERIALS)
  BY DEF Effective, Revoked, OrElse
<1>4. \A name \in {"ATTESTATION_SIGNING_CERT_SHA256", "AEGIS_SIGNING_CERT_SHA256",
                   "ATTESTATION_REVOKED_SERIALS", "AEGIS_REVOKED_SERIALS"} :
         e[name] \in Blank \/ \A t \in e[name] : IsHex(t)
  BY EnvironmentsAssumption
<1>5. Signers(e) \in Blank \/ \A t \in Signers(e) : IsHex(t)
  BY <1>4 DEF Signers, Effective
<1>6. Revoked(e) \in Blank \/ \A t \in Revoked(e) : IsHex(t)
  BY <1>4 DEF Revoked, Effective
<1> QED
  BY <1>1, <1>2, <1>3, <1>5, <1>6

\* Its two lists of texts and its name, as the policy holds them.
LEMMA ReadSettings ==
    ASSUME NEW e \in Environments
    PROVE  /\ PackageName(e) = Trim(Package(e))
           /\ Digests(e) = HexSet(Signers(e))
BY EffectiveSettings, Zenon DEF PackageName, Digests

NoSoftware(e) ==
    \A flag \in {"ATTESTATION_ALLOW_SOFTWARE", "AEGIS_EMULATOR_MODE"} :
        e[flag] \in Blank \cup {FALSE}

\* In production a policy is made if and only if both halves of the identity, or
\* none, are there in proper form, and no flag is anything but off.
LEMMA PolicyInProduction ==
    ASSUME NEW e \in Environments, InProduction(e)
    PROVE  /\ SafePolicyFromConfig(e).configured <=>
                 /\ NoSoftware(e)
                 /\ Package(e) \notin Blank
                 /\ Signers(e) \notin Blank /\ Digests(e) # {}
                 /\ Digests(e) \subseteq FullDigests
           /\ SafePolicyFromConfig(e).configured =>
                 SafePolicyFromConfig(e) =
                     [configured |-> TRUE, trustedRootPublicKeys |-> GoogleRoots,
                      packageName |-> Package(e), signingCertDigests |-> Digests(e),
                      minSecurityLevel |-> 1, requireVerifiedBoot |-> TRUE,
                      revokedSerials |-> SerialSet(Revoked(e))]
<1> DEFINE safe == SafePolicyFromConfig(e)
<1>1. SoftwareAllowed(e) = FALSE <=> NoSoftware(e)
  BY ValuesAssumption DEF SoftwareAllowed, EitherFlag, StrictBoolean, NoSoftware
<1>2. SoftwareAllowed(e) \in {TRUE, FALSE, Thrown}
  BY DEF SoftwareAllowed, EitherFlag, StrictBoolean
<1>3. /\ PackageName(e) = Empty => Package(e) \in Blank
      /\ Package(e) \in Blank => PackageName(e) = Empty
      /\ Package(e) \notin Blank => PackageName(e) = Package(e)
  BY ReadSettings DEF Trim, Blank
<1>4. Signers(e) \in Blank => Digests(e) = {}
  BY ReadSettings DEF HexSet
<1>5. PolicyFails(e) <=>
         \/ ~NoSoftware(e)
         \/ ~(Digests(e) \subseteq FullDigests)
         \/ ~(Package(e) \in Blank <=> Digests(e) = {})
  <2>1. (PackageName(e) = Empty) <=> (Package(e) \in Blank)
    BY <1>3
  <2>2. InProduction(e)
    OBVIOUS
  <2>3. SoftwareAllowed(e) # FALSE <=> SoftwareAllowed(e) \in {TRUE, Thrown}
    BY <1>2, ValuesAssumption
  <2> QED
    BY <1>1, <2>1, <2>2, <2>3 DEF PolicyFails
<1>6. CASE PolicyFails(e)
  <2>1. safe = Disabled
    BY <1>6 DEF SafePolicyFromConfig, PolicyFromConfig
  <2>2. safe.configured = FALSE
    BY <2>1 DEF Disabled
  <2> QED
    BY <1>4, <1>5, <1>6, <2>2
<1>7. CASE ~PolicyFails(e)
  <2>1. safe = PolicyOf(e)
    BY <1>7, EnvironmentsAssumption DEF SafePolicyFromConfig, PolicyFromConfig
  <2>2. SoftwareAllowed(e) = FALSE
    BY <1>1, <1>5, <1>7
  <2>3. safe = [configured |-> Digests(e) # {}, trustedRootPublicKeys |-> GoogleRoots,
                packageName |-> PackageName(e), signingCertDigests |-> Digests(e),
                minSecurityLevel |-> 1, requireVerifiedBoot |-> TRUE,
                revokedSerials |-> SerialSet(Revoked(e))]
    BY <2>1, <2>2, EffectiveSettings, Zenon DEF PolicyOf
  <2>4. safe.configured = (Digests(e) # {})
    BY <2>3
  <2>5. Digests(e) # {} => Package(e) \notin Blank /\ PackageName(e) = Package(e)
    BY <1>3, <1>5, <1>7
  <2>6. safe.configured => safe.configured = TRUE
    BY <2>4
  <2> QED
    BY <1>4, <1>5, <1>7, <2>3, <2>4, <2>5
<1> QED
  BY <1>6, <1>7

-----------------------------------------------------------------------------
(* The checks of verify, each against its part of Genuine.                 *)

\* The plain form, field by field.
LEMMA PlainForm ==
    ASSUME NEW t, IsHex(t)
    PROVE  /\ Plain(t) = [digits |-> t.digits, zeros |-> t.zeros, styled |-> FALSE]
           /\ [Plain(t) EXCEPT !.zeros = 0]
                 = [digits |-> t.digits, zeros |-> 0, styled |-> FALSE]
<1>1. t \in [digits : {t.digits}, zeros : Nat, styled : BOOLEAN]
  BY DEF IsHex
<1>2. \A f : [t EXCEPT !.styled = f]
                = [digits |-> t.digits, zeros |-> t.zeros, styled |-> f]
  BY <1>1
<1>3. Plain(t) = [digits |-> t.digits, zeros |-> t.zeros, styled |-> FALSE]
  BY <1>2 DEF Plain
<1>4. \A f : [[digits |-> t.digits, zeros |-> t.zeros, styled |-> f] EXCEPT !.zeros = 0]
                = [digits |-> t.digits, zeros |-> 0, styled |-> f]
  OBVIOUS
<1>5. [Plain(t) EXCEPT !.zeros = 0] = [digits |-> t.digits, zeros |-> 0, styled |-> FALSE]
  BY <1>3, <1>4, Zenon
<1> QED
  BY <1>3, <1>5

\* Serials are equal when their significant digits are.
LEMMA SameSerial ==
    ASSUME NEW s, IsHex(s), NEW t, IsHex(t)
    PROVE  [Plain(s) EXCEPT !.zeros = 0] = [Plain(t) EXCEPT !.zeros = 0]
              <=> t.digits = s.digits
<1>1. [Plain(s) EXCEPT !.zeros = 0] = [digits |-> s.digits, zeros |-> 0, styled |-> FALSE]
  BY PlainForm, Zenon
<1>2. [Plain(t) EXCEPT !.zeros = 0] = [digits |-> t.digits, zeros |-> 0, styled |-> FALSE]
  BY PlainForm, Zenon
<1> QED
  BY <1>1, <1>2

\* Digests are equal when their digits and their zeros are.
LEMMA SameDigest ==
    ASSUME NEW d, IsHex(d), d.styled = FALSE, NEW t, IsHex(t)
    PROVE  Plain(t) = d <=> t.digits = d.digits /\ t.zeros = d.zeros
<1>1. Plain(t) = [digits |-> t.digits, zeros |-> t.zeros, styled |-> FALSE]
  BY PlainForm
<1>2. d = [digits |-> d.digits, zeros |-> d.zeros, styled |-> FALSE]
  BY DEF IsHex
<1> QED
  BY <1>1, <1>2

\* A chain in which every certificate is signed by the next one.
LEMMA ChainOfSignatures ==
    ASSUME NEW S, NEW chain \in Seq(S), Len(chain) >= 2
    PROVE  SignedByNext(chain) <=>
              /\ \A i \in 1 .. Len(chain) - 1 : chain[i].signer = chain[i + 1].key
              /\ chain[Len(chain)].signer = chain[Len(chain)].key
<1>1. DOMAIN chain = 1 .. Len(chain) /\ Len(chain) \in Nat
  OBVIOUS
<1>2. \A i \in 1 .. Len(chain) - 1 : Lesser(i + 1, Len(chain)) = i + 1
  BY <1>1 DEF Lesser
<1>3. Lesser(Len(chain) + 1, Len(chain)) = Len(chain)
  <2> DEFINE n == Len(chain)
  <2>1. n \in Nat
    BY <1>1
  <2> HIDE DEF n
  <2>2. Lesser(n + 1, n) = n
    BY <2>1 DEF Lesser
  <2> QED
    BY <2>2 DEF n
<1>4. DOMAIN chain = (1 .. Len(chain) - 1) \cup {Len(chain)}
  BY <1>1
<1> QED
  BY <1>2, <1>3, <1>4 DEF SignedByNext

\* The revoked serials are compared without their zeros, colons and capitals.
LEMMA Revocation ==
    ASSUME NEW raw, raw \in Blank \/ \A t \in raw : IsHex(t),
           NEW cert, IsHex(cert.serial)
    PROVE  Serial(cert) \notin SerialSet(raw) <=>
              raw \in Blank \/ \A t \in raw : t.digits # cert.serial.digits
<1>1. CASE raw \in Blank
  BY <1>1 DEF SerialSet, HexSet
<1>2. CASE raw \notin Blank
  <2>1. SerialSet(raw) = {[Plain(t) EXCEPT !.zeros = 0] : t \in raw}
    BY <1>2 DEF SerialSet, HexSet
  <2>2. \A t \in raw : [Plain(t) EXCEPT !.zeros = 0] = Serial(cert)
                          <=> t.digits = cert.serial.digits
    BY <1>2, SameSerial DEF Serial
  <2> QED
    BY <1>2, <2>1, <2>2
<1> QED
  BY <1>1, <1>2

\* The digests that are accepted are the texts of the setting in plain form.
LEMMA Signing ==
    ASSUME NEW raw, raw \notin Blank, \A t \in raw : IsHex(t),
           NEW D, \A d \in D : IsHex(d) /\ d.styled = FALSE
    PROVE  D \subseteq HexSet(raw) <=>
              \A d \in D : \E t \in raw : t.digits = d.digits /\ t.zeros = d.zeros
<1>1. HexSet(raw) = {Plain(t) : t \in raw}
  BY DEF HexSet
<1>2. \A d \in D, t \in raw : Plain(t) = d <=> t.digits = d.digits /\ t.zeros = d.zeros
  BY SameDigest
<1> QED
  BY <1>1, <1>2

\* The verdict "ok", check by check.
LEMMA ChainAccepted ==
    ASSUME NEW chain, NEW policy
    PROVE  ChainVerdict(chain, policy) = "ok" <=>
              /\ ~(Len(chain) < 2)
              /\ \A i \in DOMAIN chain : chain[i] # Unreadable
              /\ SignedByNext(chain)
              /\ RootTrusted(chain, policy)
              /\ AllInTime(chain)
              /\ NoneRevoked(chain, policy)
BY DEF ChainVerdict

\* The same, for the checks of the device.
LEMMA DeviceAccepted ==
    ASSUME NEW record, NEW challenge, NEW policy
    PROVE  DeviceVerdict(record, challenge, policy) = "ok" <=>
              /\ record # NoRecord
              /\ record.challenge = challenge
              /\ ~(Level(record) < policy.minSecurityLevel)
              /\ policy.requireVerifiedBoot =>
                    /\ record.root # NoRoot
                    /\ record.root.locked
                    /\ record.root.verified
BY DEF DeviceVerdict

\* The same, for the checks of the application.
LEMMA AppAccepted ==
    ASSUME NEW app, NEW policy
    PROVE  AppVerdict(app, policy) = "ok" <=>
              /\ app # NoApp
              /\ policy.packageName \in app.packages
              /\ app.digests # {}
              /\ app.digests \subseteq policy.signingCertDigests
BY DEF AppVerdict

\* An attestation is accepted if all three parts accept it.
LEMMA VerdictAccepted ==
    ASSUME NEW chain, NEW challenge, NEW policy
    PROVE  Verdict(chain, challenge, policy) = "ok" <=>
              /\ ChainVerdict(chain, policy) = "ok"
              /\ DeviceVerdict(chain[1].record, challenge, policy) = "ok"
              /\ AppVerdict(AppId(chain[1].record), policy) = "ok"
BY DEF Verdict

-----------------------------------------------------------------------------
(* Accepted in production, and genuine.                                    *)

\* What a policy in force in production contains.
Policy(e) ==
    [configured |-> TRUE, trustedRootPublicKeys |-> GoogleRoots,
     packageName |-> Package(e), signingCertDigests |-> Digests(e),
     minSecurityLevel |-> 1, requireVerifiedBoot |-> TRUE,
     revokedSerials |-> SerialSet(Revoked(e))]

\* The chain that is accepted under the policy in force is genuine, and conversely.
LEMMA ChainIsGenuine ==
    ASSUME NEW e \in Environments, NEW o \in Offers(e)
    PROVE  ChainVerdict(o.chain, Policy(e)) = "ok" <=> GenuineChain(e, o.chain)
<1> DEFINE chain == o.chain
<1> DEFINE Certs == {chain[i] : i \in DOMAIN chain}
<1>1. /\ chain \in Seq(Certs)
      /\ \A i \in DOMAIN chain : chain[i] # Unreadable => IsHex(chain[i].serial)
  BY OffersAssumption
<1>2. Len(chain) \in Nat
  BY <1>1
<1>3. RootTrusted(chain, Policy(e)) <=> chain[Len(chain)].key \in GoogleRoots
  BY ValuesAssumption DEF RootTrusted, Policy
<1>4. ASSUME \A i \in DOMAIN chain : chain[i] # Unreadable
      PROVE  NoneRevoked(chain, Policy(e)) <=>
                Revoked(e) \in Blank \/ \A i \in DOMAIN chain, t \in Revoked(e) :
                                            t.digits # chain[i].serial.digits
  <2>1. \A i \in DOMAIN chain :
           Serial(chain[i]) \notin SerialSet(Revoked(e)) <=>
              Revoked(e) \in Blank \/ \A t \in Revoked(e) : t.digits # chain[i].serial.digits
    BY <1>1, <1>4, EffectiveSettings, Revocation
  <2>2. Policy(e).revokedSerials = SerialSet(Revoked(e))
    BY DEF Policy
  <2> QED
    BY <2>1, <2>2 DEF NoneRevoked
<1>5. Len(chain) >= 2 =>
         (SignedByNext(chain) <=>
             /\ \A i \in 1 .. Len(chain) - 1 : chain[i].signer = chain[i + 1].key
             /\ chain[Len(chain)].signer = chain[Len(chain)].key)
  BY <1>1, ChainOfSignatures
<1>6. ~(Len(chain) < 2) <=> Len(chain) >= 2
  BY <1>2
<1> HIDE DEF chain
<1>7. ChainVerdict(chain, Policy(e)) = "ok" <=> GenuineChain(e, chain)
  BY <1>3, <1>4, <1>5, <1>6, ChainAccepted DEF GenuineChain, AllInTime
<1> QED
  BY <1>7 DEF chain

\* The same of the device, for a leaf that can be read.
LEMMA DeviceIsGenuine ==
    ASSUME NEW e \in Environments, NEW o \in Offers(e),
           o.chain # <<>>, o.chain[1] # Unreadable
    PROVE  DeviceVerdict(o.chain[1].record, o.challenge, Policy(e)) = "ok"
              <=> GenuineDevice(o.chain[1].record, o.challenge)
<1> DEFINE record == o.chain[1].record
<1>1. record # NoRecord => record.attestationLevel \in Nat /\ record.keymasterLevel \in Nat
  BY OffersAssumption
<1>2. Policy(e).minSecurityLevel = 1 /\ Policy(e).requireVerifiedBoot = TRUE
  BY DEF Policy
<1> HIDE DEF record
<1>3. record # NoRecord =>
         (~(Level(record) < 1) <=> record.attestationLevel >= 1 /\ record.keymasterLevel >= 1)
  BY <1>1 DEF Level, Lesser
<1>4. DeviceVerdict(record, o.challenge, Policy(e)) = "ok" <=> GenuineDevice(record, o.challenge)
  BY <1>2, <1>3, DeviceAccepted DEF GenuineDevice
<1> QED
  BY <1>4 DEF record

\* The same of the application, for a leaf with a record.
LEMMA AppIsGenuine ==
    ASSUME NEW e \in Environments, NEW o \in Offers(e),
           o.chain # <<>>, o.chain[1] # Unreadable, o.chain[1].record # NoRecord,
           Signers(e) \notin Blank
    PROVE  AppVerdict(AppId(o.chain[1].record), Policy(e)) = "ok"
              <=> GenuineApp(e, AppId(o.chain[1].record))
<1> DEFINE app == AppId(o.chain[1].record)
<1>1. app # NoApp => \A d \in app.digests : IsHex(d) /\ d.styled = FALSE
  BY OffersAssumption DEF AppId
<1>2. Policy(e).packageName = Package(e) /\ Policy(e).signingCertDigests = HexSet(Signers(e))
  BY ReadSettings DEF Policy
<1> HIDE DEF app
<1>3. app # NoApp =>
         (app.digests \subseteq HexSet(Signers(e)) <=>
            \A d \in app.digests : \E t \in Signers(e) :
                t.digits = d.digits /\ t.zeros = d.zeros)
  <2> SUFFICES ASSUME app # NoApp
               PROVE  app.digests \subseteq HexSet(Signers(e)) <=>
                         \A d \in app.digests : \E t \in Signers(e) :
                             t.digits = d.digits /\ t.zeros = d.zeros
    OBVIOUS
  <2> DEFINE D == app.digests
             raw == Signers(e)
  <2>1. \A d \in D : IsHex(d) /\ d.styled = FALSE
    BY <1>1
  <2>2. raw \notin Blank /\ \A t \in raw : IsHex(t)
    BY EffectiveSettings, Zenon
  <2> HIDE DEF D, raw
  <2>3. D \subseteq HexSet(raw) <=>
           \A d \in D : \E t \in raw : t.digits = d.digits /\ t.zeros = d.zeros
    BY <2>1, <2>2, Signing, Zenon
  <2> QED
    BY <2>3 DEF D, raw
<1>4. AppVerdict(app, Policy(e)) = "ok" <=> GenuineApp(e, app)
  BY <1>2, <1>3, AppAccepted DEF GenuineApp
<1> QED
  BY <1>4 DEF app

\* The endpoints accept an attestation in production if and only if it is genuine.
LEMMA GenuineInProduction ==
    ASSUME NEW e \in Environments, InProduction(e), NEW o \in Offers(e)
    PROVE  (/\ SafePolicyFromConfig(e).configured
            /\ Verdict(o.chain, o.challenge, SafePolicyFromConfig(e)) = "ok")
              <=> Genuine(e, o.chain, o.challenge)
<1> DEFINE safe == SafePolicyFromConfig(e)
           record == o.chain[1].record
<1>1. safe.configured =>
         /\ safe = Policy(e)
         /\ Signers(e) \notin Blank /\ NoSoftware(e) /\ Package(e) \notin Blank
         /\ Digests(e) \subseteq FullDigests
  BY PolicyInProduction DEF Policy
<1>2. Signers(e) \notin Blank =>
         (Digests(e) \subseteq FullDigests <=>
            \A t \in Signers(e) : [t EXCEPT !.styled = FALSE] \in FullDigests)
  <2>1. Signers(e) \notin Blank => Digests(e) = {Plain(t) : t \in Signers(e)}
    BY ReadSettings DEF HexSet
  <2> QED
    BY <2>1 DEF Plain
<1>3. safe.configured => SoundSettings(e)
  BY <1>1, <1>2 DEF SoundSettings, NoSoftware
<1>4. SoundSettings(e) /\ GenuineApp(e, AppId(record)) => safe.configured
  <2> SUFFICES ASSUME SoundSettings(e), GenuineApp(e, AppId(record))
               PROVE  safe.configured
    OBVIOUS
  <2>1. \E t \in Signers(e) : TRUE
    BY DEF GenuineApp
  <2>2. Digests(e) = {Plain(t) : t \in Signers(e)}
    BY ReadSettings DEF SoundSettings, HexSet
  <2>3. Digests(e) # {}
    BY <2>1, <2>2
  <2>4. Digests(e) \subseteq FullDigests
    BY <1>2 DEF SoundSettings
  <2> QED
    BY <2>3, <2>4, PolicyInProduction DEF SoundSettings, NoSoftware
<1>5. GenuineChain(e, o.chain) => o.chain # <<>> /\ o.chain[1] # Unreadable
  <2>1. o.chain \in Seq({o.chain[i] : i \in DOMAIN o.chain})
    BY OffersAssumption
  <2>2. Len(o.chain) >= 2 => o.chain # <<>> /\ 1 \in DOMAIN o.chain
    BY <2>1
  <2> QED
    BY <2>2 DEF GenuineChain
<1>6. ASSUME safe.configured
      PROVE  Verdict(o.chain, o.challenge, safe) = "ok" <=> Genuine(e, o.chain, o.challenge)
  <2>1. Verdict(o.chain, o.challenge, Policy(e)) = "ok" <=>
           /\ GenuineChain(e, o.chain)
           /\ DeviceVerdict(record, o.challenge, Policy(e)) = "ok"
           /\ AppVerdict(AppId(record), Policy(e)) = "ok"
    BY VerdictAccepted, ChainIsGenuine
  <2>2. GenuineChain(e, o.chain) =>
           (DeviceVerdict(record, o.challenge, Policy(e)) = "ok"
               <=> GenuineDevice(record, o.challenge))
    BY <1>5, DeviceIsGenuine
  <2>3. GenuineDevice(record, o.challenge) => record # NoRecord
    BY DEF GenuineDevice
  <2>4. GenuineChain(e, o.chain) /\ record # NoRecord =>
           (AppVerdict(AppId(record), Policy(e)) = "ok" <=> GenuineApp(e, AppId(record)))
    BY <1>1, <1>5, <1>6, AppIsGenuine
  <2> QED
    BY <1>1, <1>3, <1>6, <2>1, <2>2, <2>3, <2>4 DEF Genuine, AppId
<1>7. ~safe.configured => ~Genuine(e, o.chain, o.challenge)
  BY <1>4 DEF Genuine, AppId
<1> QED
  BY <1>6, <1>7

-----------------------------------------------------------------------------
(* The invariant.                                                          *)

\* The verdict on an attestation, as Offer answers it.
Code(e, chain, challenge) ==
    IF SafePolicyFromConfig(e).configured
    THEN Verdict(chain, challenge, SafePolicyFromConfig(e))
    ELSE "503"

\* The settings are those of the environment, which does not change while the
\* process runs; and the attestation that was offered is from this life of it.
IInv ==
    /\ env \in Environments
    /\ settings = SettingsOf(env)
    /\ mode # "up" => offered = NothingOffered
    /\ offered # NothingOffered =>
          \E o \in Offers(env) :
             offered = [chain |-> o.chain, challenge |-> o.challenge,
                        code  |-> Code(env, o.chain, o.challenge)]

\* The invariant holds at the start.
LEMMA InvInit == Init => IInv
BY DEF Init, IInv

\* Every step preserves the invariant.
LEMMA InvStep == IInv /\ [Next]_vars => IInv'
<1> SUFFICES ASSUME IInv, [Next]_vars PROVE IInv'
  OBVIOUS
<1> USE DEF IInv
<1>1. CASE Configure
  BY <1>1 DEF Configure
<1>2. CASE Start
  BY <1>2 DEF Start
<1>3. CASE Stop
  BY <1>3 DEF Stop
<1>4. ASSUME NEW c \in Calls(env), Begin(c)
      PROVE  IInv'
  BY <1>4 DEF Begin
<1>5. CASE Limited \/ Refused \/ Forwarded
  BY <1>5 DEF Limited, Refused, Forwarded, Arrived
<1>6. ASSUME NEW pc, NEW next, Proceed(pc, next)
      PROVE  IInv'
  BY <1>6 DEF Proceed
<1>7. CASE \/ \E r \in Replies : UpstreamReplies(r)
           \/ UpstreamFails \/ Receive \/ Done
           \/ \E answer \in Foreign \cup ({last} \ {NoReply}) : Replaced(answer)
  BY <1>6, <1>7 DEF UpstreamReplies, UpstreamFails, Receive, Done, Replaced
<1>8. CASE Respond
  BY <1>8 DEF Respond
<1>9. CASE \E a \in Addresses : WindowEnds(a)
  BY <1>9 DEF WindowEnds
<1>10. ASSUME NEW o \in Offers(env), Offer(o)
       PROVE  IInv'
  <2>1. settings.policy = SafePolicyFromConfig(env)
    BY DEF SettingsOf
  <2>2. offered' = [chain |-> o.chain, challenge |-> o.challenge,
                    code  |-> Code(env, o.chain, o.challenge)]
    BY <1>10, <2>1, Zenon DEF Offer, Code
  <2>3. mode = "up" /\ mode' = mode /\ env' = env /\ settings' = settings
    BY <1>10 DEF Offer
  <2> QED
    BY <2>2, <2>3
<1>11. CASE UNCHANGED vars
  BY <1>11 DEF vars
<1> QED
  BY <1>1, <1>2, <1>3, <1>4, <1>5, <1>7, <1>8, <1>9, <1>10, <1>11 DEF Next

\* The invariant implies the property.
LEMMA InvAccepts == IInv => AcceptedIfGenuine
<1> SUFFICES ASSUME IInv, offered # NothingOffered, InProduction(env)
             PROVE  offered.code = "ok" <=> Genuine(env, offered.chain, offered.challenge)
  BY DEF AcceptedIfGenuine
<1>1. PICK o \in Offers(env) :
         offered = [chain |-> o.chain, challenge |-> o.challenge,
                    code  |-> Code(env, o.chain, o.challenge)]
  BY DEF IInv
<1>2. /\ offered.chain = o.chain /\ offered.challenge = o.challenge
      /\ offered.code = Code(env, o.chain, o.challenge)
  BY <1>1
<1>3. env \in Environments
  BY DEF IInv
<1>4. Code(env, o.chain, o.challenge) = "ok" <=> Genuine(env, o.chain, o.challenge)
  BY <1>3, GenuineInProduction DEF Code
<1> QED
  BY <1>2, <1>4

\* In production the endpoints accept an attestation if and only if it is
\* genuine (verify under the policy of policyFromConfig), whatever is set in the
\* environment and whatever is offered.
THEOREM AttestationsAccepted == Spec => []AcceptedIfGenuine
<1>1. Init => IInv
  BY InvInit
<1>2. IInv /\ [Next]_vars => IInv'
  BY InvStep
<1>3. IInv => AcceptedIfGenuine
  BY InvAccepts
<1> QED
  BY <1>1, <1>2, <1>3, PTL DEF Spec

-----------------------------------------------------------------------------
(* The invariant.                                                          *)

CallFields ==
    {"pc", "key", "payload", "from", "sealed", "client", "request", "reply", "answer", "result"}

\* A call, and what it has by then.
CallOK ==
    call # Idle =>
        /\ DOMAIN call = CallFields
        /\ call.pc \in {"sent", "upstream", "replied", "answered", "ended"}
        /\ call.key \in 1 .. calls
        /\ call.sealed \in BOOLEAN
        /\ call.client \in C!Kinds
        /\ call.from \in Addresses
        /\ IsPayload(call.payload)
        /\ call.payload.url \notin {Empty, Malformed} => IsUrl(call.payload.url)
        /\ call.reply \in Replies \cup {NoReply}
        /\ call.pc \in {"sent", "upstream"} => call.reply = NoReply
        /\ call.pc = "replied" => call.reply # NoReply

\* What goes upstream passed every check of parsePayload and of forward.
SentOK ==
    IsSent => PayloadFits(call.payload) /\ ToSend # Thrown /\ call.request = ToSend

\* The answer that can be repeated: sealed with the key of its call, and if that
\* is the call in progress, it tells what the upstream answered to this call.
LastOK ==
    last # NoReply =>
        /\ last.code = 200 /\ last.encrypted = TRUE /\ last.envelope = "whole"
        /\ last.key \in 1 .. calls
        /\ last.content \in {PassedOn(r) : r \in Replies}
        /\ call # Idle /\ last.key = call.key =>
              /\ call.pc \in {"answered", "ended"}
              /\ call.reply # NoReply
              /\ last.content = PassedOn(call.reply)

\* Where an answer comes from.
AnswerOK ==
    call.pc = "answered" =>
        \/ call.answer \in Foreign
        \/ call.answer = ErrorAnswer
        \/ last # NoReply /\ call.answer = last
        \/ call.reply # NoReply /\ call.answer = Response(PassedOn(call.reply))

\* A process that runs has usable settings, and calls need one that runs.
ProcessOK ==
    /\ mode \in {"down", "failed", "up"}
    /\ mode = "up" => Usable(settings)
    /\ mode # "up" => call = Idle
    /\ calls \in Nat

\* The counters of the limiter, and what they count.
CountersOK ==
    /\ DOMAIN hits \subseteq {ClientIpKey(a) : a \in Addresses}
    /\ \A k \in DOMAIN hits : hits[k] \in Nat
    /\ tried \in [{Network(a) : a \in Addresses} -> Nat]
    /\ \A a \in Addresses : Hits(ClientIpKey(a)) = tried[Network(a)]

CInv == ProcessOK /\ CallOK /\ SentOK /\ LastOK /\ AnswerOK /\ CountersOK

-----------------------------------------------------------------------------
(* The settings of a process that runs.                                    *)

\* What an entry of the two settings becomes.
LEMMA RuleFacts ==
    ASSUME NEW e \in Environments, SettingsOf(e).rules # Thrown, NEW r \in SettingsOf(e).rules
    PROVE  /\ r = [method |-> r.method, host |-> r.host, path |-> r.path, prefix |-> r.prefix]
           /\ r.method \in AllowedMethods \cup {"*"} /\ r.prefix \in BOOLEAN
           /\ \/ r.path = <<<<>>>>
              \/ \E x \in ListOf(e.ALLOWED_ROUTES) :
                    x.path # <<>> /\ r.path = Pathname(WithoutStar(x.path))
<1> DEFINE s == SettingsOf(e)
           hosts == ListOf(e.ALLOWED_TARGET_HOSTS)
           routes == ListOf(e.ALLOWED_ROUTES)
<1>1. s.rules = RulesFromConfig(hosts, routes)
  BY DEF SettingsOf
<1>2. /\ r # Thrown
      /\ (\E x \in hosts : r = ParseHostEntry(x)) \/ (\E x \in routes : r = ParseRouteEntry(x))
  <2> HIDE DEF hosts, routes, s
  <2> QED
    BY <1>1 DEF RulesFromConfig, s
<1>3. ASSUME NEW x, r = ParseHostEntry(x)
      PROVE  r = [method |-> "*", host |-> AssertHost(x.host), path |-> <<<<>>>>, prefix |-> TRUE]
  BY <1>2, <1>3, Zenon DEF ParseHostEntry
<1>4. ASSUME NEW x, r = ParseRouteEntry(x)
      PROVE  /\ r = [method |-> IF x.words = 2 THEN x.method ELSE "*",
                     host   |-> AssertHost(x.host),
                     path   |-> Pathname(WithoutStar(x.path)),
                     prefix |-> Starred(x.path)]
             /\ x.words = 2 => x.method \in AllowedMethods \cup {"*"}
             /\ x.path # <<>>
  BY <1>2, <1>4, Zenon DEF ParseRouteEntry
<1>5. ASSUME NEW x PROVE Starred(x) \in BOOLEAN
  BY DEF Starred
<1> HIDE DEF hosts, routes, s
<1>6. CASE \E x \in hosts : r = ParseHostEntry(x)
  <2>1. PICK x \in hosts : r = ParseHostEntry(x)
    BY <1>6
  <2> DEFINE host == AssertHost(x.host)
             path == <<<<>>>>
  <2>2. r = [method |-> "*", host |-> host, path |-> path, prefix |-> TRUE]
    BY <1>3, <2>1, Zenon
  <2> HIDE DEF host, path
  <2>3. r.path = path
    BY <2>2
  <2> QED
    BY <2>2, <2>3 DEF path
<1>7. CASE \E x \in routes : r = ParseRouteEntry(x)
  <2>1. PICK x \in routes : r = ParseRouteEntry(x)
    BY <1>7
  <2> DEFINE method == IF x.words = 2 THEN x.method ELSE "*"
             host == AssertHost(x.host)
             path == Pathname(WithoutStar(x.path))
             prefix == Starred(x.path)
  <2>2. /\ r = [method |-> method, host |-> host, path |-> path, prefix |-> prefix]
        /\ x.path # <<>>
    BY <1>4, <2>1, Zenon
  <2>3. method \in AllowedMethods \cup {"*"} /\ prefix \in BOOLEAN
    BY <1>4, <1>5, <2>1
  <2> HIDE DEF method, host, path, prefix
  <2>4. r.path = path
    BY <2>2
  <2> QED
    BY <2>2, <2>3, <2>4 DEF path, routes
<1> QED
  BY <1>2, <1>6, <1>7

\* Settings with which every constructor succeeds have their types.
LEMMA UsableSettings ==
    ASSUME NEW e \in Environments, Usable(SettingsOf(e))
    PROVE  LET s == SettingsOf(e)
           IN  /\ s.rules \in SUBSET [method : AllowedMethods \cup {"*"}, prefix : BOOLEAN,
                                      host : {r.host : r \in s.rules},
                                      path : {r.path : r \in s.rules}]
               /\ s.allowHttp \in BOOLEAN /\ s.encrypt \in BOOLEAN
               /\ s.encrypt = FALSE => e.ENCRYPT_RESPONSE = FALSE
               /\ s.limit \in Nat \ {0} /\ s.timeout \in Nat \ {0}
               /\ s.device \in {"required", "report"}
               /\ s.store \in {"memory", "upstash"}
<1> DEFINE s == SettingsOf(e)
<1>1. /\ s.rules # Thrown /\ s.allowHttp # Thrown /\ s.encrypt # Thrown
      /\ s.limit # Thrown /\ s.timeout # Thrown /\ s.device # Thrown
  BY DEF Usable, SettingsOf
<1>2. s.allowHttp \in BOOLEAN
  BY <1>1 DEF SettingsOf, StrictBoolean
<1>3. s.encrypt \in BOOLEAN /\ (s.encrypt = FALSE => e.ENCRYPT_RESPONSE = FALSE)
  BY <1>1 DEF SettingsOf, StrictBoolean
<1>4. s.limit \in Nat \ {0} /\ s.timeout \in Nat \ {0}
  BY <1>1, DefaultsAssumption DEF SettingsOf, PositiveInteger
<1>5. s.device \in {"required", "report"}
  BY <1>1 DEF SettingsOf, DevicePolicyFromConfig, EnumValue
<1>6. s.store \in {"memory", "upstash"}
  BY DEF SettingsOf, SafeKvStoreFromConfig
<1>7. ASSUME NEW r \in s.rules
      PROVE  /\ r = [method |-> r.method, host |-> r.host, path |-> r.path, prefix |-> r.prefix]
             /\ r.method \in AllowedMethods \cup {"*"} /\ r.prefix \in BOOLEAN
  BY <1>1, <1>7, RuleFacts
<1>8. s.rules \in SUBSET [method : AllowedMethods \cup {"*"}, prefix : BOOLEAN,
                          host : {r.host : r \in s.rules}, path : {r.path : r \in s.rules}]
  <2> HIDE DEF s
  <2> SUFFICES ASSUME NEW r \in s.rules
               PROVE  r \in [method : AllowedMethods \cup {"*"}, prefix : BOOLEAN,
                             host : {q.host : q \in s.rules}, path : {q.path : q \in s.rules}]
    OBVIOUS
  <2> QED
    BY <1>7
<1> QED
  BY <1>2, <1>3, <1>4, <1>5, <1>6, <1>8


-----------------------------------------------------------------------------
(* The key of the limiter is what an address means.                        *)

Groups == [value : 0 .. Byte * Byte - 1, padded : BOOLEAN]

\* What stands where in two sequences, one after the other.
LEMMA Concatenated ==
    ASSUME NEW S, NEW s \in Seq(S), NEW t \in Seq(S), NEW m, NEW n, Len(s) = m, Len(t) = n
    PROVE  /\ m \in Nat /\ n \in Nat
           /\ (s \o t) \in Seq(S) /\ Len(s \o t) = m + n
           /\ \A i \in 1 .. m : (s \o t)[i] = s[i]
           /\ \A i \in 1 .. n : (s \o t)[m + i] = t[i]
OBVIOUS

\* The groups to the right of "::", those of an IPv4 tail last.
LEMMA RightGroupsFacts ==
    ASSUME NEW a, IsAddress(a), a.kind = "v6"
    PROVE  LET tail == IF a.dotted = <<>> THEN 0 ELSE 2
           IN  /\ RightGroups(a) \in Seq(Groups)
               /\ Len(RightGroups(a)) = Len(a.right) + tail
               /\ Len(a.left) \in Nat /\ Len(a.right) \in Nat
               /\ Len(a.left) + Len(RightGroups(a)) <= 8
               /\ \A j \in 1 .. Len(a.right) : RightGroups(a)[j] = a.right[j]
               /\ tail = 2 => \A j \in 1 .. 2 :
                     RightGroups(a)[Len(a.right) + j] =
                        Group(a.dotted[2 * j - 1] * Byte + a.dotted[2 * j])
<1> DEFINE tail == IF a.dotted = <<>> THEN 0 ELSE 2
           t4 == Tail4(a.dotted)
<1>1. a.left \in Seq(Groups) /\ a.right \in Seq(Groups)
  BY DEF IsAddress, Groups
<1>2. t4 \in Seq(Groups) /\ Len(t4) = tail
      /\ (tail = 2 => t4[1] = Group(a.dotted[1] * Byte + a.dotted[2])
                      /\ t4[2] = Group(a.dotted[3] * Byte + a.dotted[4]))
  <2>1. CASE a.dotted = <<>>
    BY <2>1 DEF Tail4
  <2>2. CASE a.dotted # <<>>
    <3>1. a.dotted \in [1..4 -> 0 .. Byte - 1]
      BY <2>2 DEF IsAddress
    <3>2. ASSUME NEW x \in 0 .. Byte - 1, NEW y \in 0 .. Byte - 1
          PROVE  Group(x * Byte + y) \in Groups
      <4>1. x \in Int /\ y \in Int /\ 0 <= x /\ x <= 255 /\ 0 <= y /\ y <= 255
        BY DEF Byte
      <4>2. x * Byte + y \in Int /\ 0 <= x * Byte + y /\ x * Byte + y <= Byte * Byte - 1
        BY <4>1 DEF Byte
      <4> QED
        BY <4>2 DEF Group, Groups
    <3>3. t4 = <<Group(a.dotted[1] * Byte + a.dotted[2]), Group(a.dotted[3] * Byte + a.dotted[4])>>
      BY <2>2 DEF Tail4
    <3>4. Group(a.dotted[1] * Byte + a.dotted[2]) \in Groups
          /\ Group(a.dotted[3] * Byte + a.dotted[4]) \in Groups
      <4>1. /\ a.dotted[1] \in 0 .. Byte - 1 /\ a.dotted[2] \in 0 .. Byte - 1
            /\ a.dotted[3] \in 0 .. Byte - 1 /\ a.dotted[4] \in 0 .. Byte - 1
        BY <3>1
      <4> QED
        BY <3>2, <4>1, Zenon
    <3> QED
      BY <2>2, <3>3, <3>4
  <2> QED
    BY <2>1, <2>2
<1> HIDE DEF t4
<1>3. RightGroups(a) = a.right \o t4
  BY DEF RightGroups, t4
<1>4. /\ RightGroups(a) \in Seq(Groups) /\ Len(RightGroups(a)) = Len(a.right) + tail
      /\ Len(a.left) \in Nat /\ Len(a.right) \in Nat
      /\ \A j \in 1 .. Len(a.right) : RightGroups(a)[j] = a.right[j]
      /\ \A j \in 1 .. tail : RightGroups(a)[Len(a.right) + j] = t4[j]
  <2> HIDE DEF tail
  <2>1. Len(a.left) \in Nat
    BY <1>1, LenProperties
  <2> QED
    BY <1>1, <1>2, <1>3, <2>1, Concatenated
<1>5. Len(a.left) + Len(RightGroups(a)) <= 8
  <2>1. IsIPv6(a)
    BY DEF IsAddress
  <2> QED
    <3> DEFINE given == Len(a.left) + Len(RightGroups(a))
    <3>1. IF a.double THEN given < 8 ELSE given = 8
      BY <2>1, Zenon DEF IsIPv6
    <3>2. given \in Nat
      <4>1. Len(RightGroups(a)) \in Nat
        BY <1>4, LenProperties
      <4> HIDE DEF tail
      <4> QED
        BY <1>4, <4>1
    <3> HIDE DEF given
    <3>3. given <= 8
      BY <3>1, <3>2
    <3> QED
      BY <3>3 DEF given
<1>6. tail = 2 => \A j \in 1 .. 2 :
         RightGroups(a)[Len(a.right) + j] = Group(a.dotted[2 * j - 1] * Byte + a.dotted[2 * j])
  <2> SUFFICES ASSUME tail = 2, NEW j \in 1 .. 2
               PROVE  t4[j] = Group(a.dotted[2 * j - 1] * Byte + a.dotted[2 * j])
    BY <1>4
  <2>1. CASE j = 1
    BY <1>2, <2>1
  <2>2. CASE j = 2
    BY <1>2, <2>2
  <2> QED
    BY <2>1, <2>2
<1> QED
  BY <1>4, <1>5, <1>6

\* The eight groups have the eight numbers.
LEMMA ExpandedNumbers ==
    ASSUME NEW a, IsAddress(a), a.kind = "v6", NEW i \in 1 .. 8
    PROVE  /\ ExpandIpv6(a)[i].value = NumberAt(a, i)
           /\ MapsIPv4(a) => ExpandIpv6(a)[i] = Group(NumberAt(a, i))
<1> DEFINE tail == IF a.dotted = <<>> THEN 0 ELSE 2
           right == RightGroups(a)
           l == Len(a.left)
           r == Len(a.right)
           missing == 8 - l - Len(right)
           zeros == [k \in 1..missing |-> Group(0)]
           place == r + tail - (8 - i)
<1>1. /\ right \in Seq(Groups) /\ Len(right) = r + tail
      /\ l \in Nat /\ r \in Nat /\ l + Len(right) <= 8
      /\ \A j \in 1 .. r : right[j] = a.right[j]
      /\ tail = 2 => \A j \in 1 .. 2 :
            right[r + j] = Group(a.dotted[2 * j - 1] * Byte + a.dotted[2 * j])
  BY RightGroupsFacts
<1>2. a.left \in Seq(Groups) /\ a.right \in Seq(Groups)
  BY DEF IsAddress, Groups
<1>3. ExpandIpv6(a) = a.left \o zeros \o right
  BY DEF ExpandIpv6
<1>4. tail \in {0, 2}
  OBVIOUS
<1>5. NumberAt(a, i) =
         IF i <= l THEN a.left[i].value
         ELSE IF i > 8 - tail THEN a.dotted[2 * (i - 6) - 1] * Byte + a.dotted[2 * (i - 6)]
         ELSE IF place > 0 THEN a.right[place].value ELSE 0
  BY Zenon DEF NumberAt
<1> HIDE DEF right, l, r, tail
<1>6. missing \in Nat
  BY <1>1
<1>7. zeros \in Seq(Groups) /\ Len(zeros) = missing /\ \A k \in 1 .. missing : zeros[k] = Group(0)
  <2>1. Group(0) \in Groups
    BY DEF Group, Groups, Byte
  <2> QED
    BY <1>6, <2>1
<1>8. ExpandIpv6(a)[i] = IF i <= l THEN a.left[i]
                         ELSE IF i <= l + missing THEN Group(0) ELSE right[i - l - missing]
  <2> HIDE DEF zeros, missing
  <2> DEFINE before == a.left \o zeros
  <2>3. /\ before \in Seq(Groups) /\ Len(before) = l + missing
        /\ \A k \in 1 .. l : before[k] = a.left[k]
        /\ \A k \in 1 .. missing : before[l + k] = Group(0)
    <3>1. Len(a.left) = l
      BY DEF l
    <3> QED
      BY <1>2, <1>7, <3>1, Concatenated
  <2> HIDE DEF before
  <2>4. /\ \A k \in 1 .. l + missing : (before \o right)[k] = before[k]
        /\ \A k \in 1 .. Len(right) : (before \o right)[l + missing + k] = right[k]
    <3>1. right \in Seq(Groups)
      BY <1>1
    <3> QED
      BY <2>3, <3>1, Concatenated
  <2>5. ExpandIpv6(a)[i] = (before \o right)[i]
    BY <1>3 DEF before
  <2>6. CASE i <= l
    <3>1. i \in 1 .. l /\ i \in 1 .. l + missing
      BY <1>1, <1>6, <2>6
    <3> QED
      BY <2>3, <2>4, <2>5, <2>6, <3>1
  <2>7. CASE i > l /\ i <= l + missing
    <3>1. i - l \in 1 .. missing /\ i = l + (i - l) /\ i \in 1 .. l + missing
      BY <1>1, <1>6, <2>7
    <3> QED
      BY <2>3, <2>4, <2>5, <2>7, <3>1
  <2>8. CASE i > l + missing
    <3>1. missing = 8 - l - Len(right) /\ Len(right) \in Nat
      BY <1>1, LenProperties DEF missing
    <3>2. i - l - missing \in 1 .. Len(right) /\ i = l + missing + (i - l - missing)
          /\ ~(i <= l) /\ ~(i <= l + missing)
      <4> DEFINE n == Len(right)
      <4>1. l \in Nat /\ missing \in Nat /\ n \in Nat /\ missing = 8 - l - n
        BY <1>1, <1>6, <3>1
      <4> HIDE DEF n
      <4>2. i - l - missing \in 1 .. n
        BY <2>8, <4>1
      <4>3. i = l + missing + (i - l - missing) /\ ~(i <= l) /\ ~(i <= l + missing)
        BY <2>8, <4>1
      <4> QED
        BY <4>2, <4>3 DEF n
    <3>3. (before \o right)[l + missing + (i - l - missing)] = right[i - l - missing]
      BY <2>4, <3>2
    <3> QED
      BY <2>5, <3>2, <3>3
  <2> QED
    BY <1>1, <1>6, <2>6, <2>7, <2>8
<1>9. Group(0).value = 0 /\ \A v : Group(v).value = v
  BY DEF Group
<1>10. ASSUME NEW g \in Groups, ~g.padded PROVE g = Group(g.value)
  BY <1>10 DEF Group, Groups
<1>11. CASE i <= l
  <2>1. ExpandIpv6(a)[i] = a.left[i] /\ NumberAt(a, i) = a.left[i].value
    BY <1>5, <1>8, <1>11, Zenon
  <2>2. a.left[i] \in Groups /\ i \in DOMAIN a.left
    BY <1>1, <1>2, <1>11 DEF l
  <2>3. MapsIPv4(a) => ~a.left[i].padded
    BY <2>2 DEF IsAddress
  <2> QED
    BY <1>10, <2>1, <2>2, <2>3
<1>12. CASE i > l /\ i <= l + missing
  <2>1. ExpandIpv6(a)[i] = Group(0)
    BY <1>1, <1>8, <1>12
  <2>2. NumberAt(a, i) = 0
    BY <1>1, <1>4, <1>5, <1>12
  <2> QED
    BY <1>9, <2>1, <2>2
<1>13. CASE i > l + missing
  <2>1. ExpandIpv6(a)[i] = right[i - l - missing] /\ i - l - missing = place /\ place \in 1 .. r + tail
    BY <1>1, <1>4, <1>6, <1>8, <1>13
  <2>2. CASE i <= 8 - tail
    <3>1. NumberAt(a, i) = a.right[place].value /\ place \in 1 .. r
      BY <1>1, <1>4, <1>5, <1>6, <1>13, <2>1, <2>2
    <3>2. right[place] = a.right[place] /\ a.right[place] \in Groups /\ place \in DOMAIN a.right
      BY <1>1, <1>2, <3>1 DEF r
    <3>3. MapsIPv4(a) => ~a.right[place].padded
      BY <3>2 DEF IsAddress
    <3> HIDE DEF place, missing
    <3> QED
      BY <1>10, <2>1, <3>1, <3>2, <3>3
  <2>3. CASE i > 8 - tail
    <3>1. tail = 2 /\ i - 6 \in 1 .. 2 /\ place = r + (i - 6)
      BY <1>4, <2>3, <1>1
    <3>2. NumberAt(a, i) = a.dotted[2 * (i - 6) - 1] * Byte + a.dotted[2 * (i - 6)]
      BY <1>1, <1>5, <1>6, <1>13, <2>3
    <3>3. right[place] = Group(NumberAt(a, i))
      BY <1>1, <3>1, <3>2
    <3> HIDE DEF place, missing
    <3> QED
      BY <1>9, <2>1, <3>3
  <2> QED
    BY <1>4, <2>2, <2>3
<1>14. l \in Int /\ missing \in Int /\ i \in Int
  BY <1>1, <1>6
<1> HIDE DEF missing
<1> QED
  BY <1>11, <1>12, <1>13, <1>14

\* The key of the limiter is what an address means.
LEMMA KeyIsNetwork ==
    ASSUME NEW a, IsAddress(a)
    PROVE  ClientIpKey(a) = Network(a)
<1>1. CASE a.kind = "none"
  BY <1>1 DEF ClientIpKey, Network
<1>2. CASE a.kind = "other"
  BY <1>2 DEF ClientIpKey, Network, IsIPv6
<1>3. CASE a.kind = "v6"
  <2> DEFINE g == ExpandIpv6(a)
  <2>1. \A i \in 1 .. 8 : g[i].value = NumberAt(a, i)
                          /\ (MapsIPv4(a) => g[i] = Group(NumberAt(a, i)))
    BY <1>3, ExpandedNumbers
  <2>2. IsIPv6(a)
    BY <1>3 DEF IsAddress
  <2>3. ClientIpKey(a) = IF IsMapped(g) THEN <<"text", Bytes(g)>>
                         ELSE <<"/64", [i \in 1..4 |-> g[i].value]>>
    BY <1>3, <2>2 DEF ClientIpKey
  <2> HIDE DEF g
  <2>4. IsMapped(g) <=> MapsIPv4(a)
    <3>1. \A v : Group(v).value = v
      BY DEF Group
    <3>2. ASSUME IsMapped(g) PROVE MapsIPv4(a)
      BY <2>1, <3>1, <3>2 DEF IsMapped, MapsIPv4
    <3>3. ASSUME MapsIPv4(a) PROVE IsMapped(g)
      BY <2>1, <3>3 DEF IsMapped, MapsIPv4
    <3> QED
      BY <3>2, <3>3
  <2>5. [i \in 1..4 |-> g[i].value] = [i \in 1..4 |-> NumberAt(a, i)]
    BY <2>1
  <2>6. Bytes(g) = <<NumberAt(a, 7) \div Byte, NumberAt(a, 7) % Byte,
                     NumberAt(a, 8) \div Byte, NumberAt(a, 8) % Byte>>
    BY <2>1 DEF Bytes
  <2>7. CASE MapsIPv4(a)
    BY <1>3, <2>3, <2>4, <2>6, <2>7, Zenon DEF Network
  <2>8. CASE ~MapsIPv4(a)
    BY <1>3, <2>3, <2>4, <2>5, <2>8, Zenon DEF Network
  <2> QED
    BY <2>7, <2>8
<1> QED
  BY <1>1, <1>2, <1>3 DEF IsAddress

-----------------------------------------------------------------------------
(* The invariant holds.                                                    *)

\* It holds at the start.
LEMMA CInvInit == Init => CInv
<1> SUFFICES ASSUME Init PROVE CInv
  OBVIOUS
<1>1. call = Idle /\ call.pc = "idle" /\ last = NoReply /\ mode = "down" /\ calls = 0
  BY DEF Init, Idle
<1>2. CountersOK
  BY DEF Init, CountersOK, Hits
<1> QED
  BY <1>1, <1>2 DEF CInv, ProcessOK, CallOK, SentOK, IsSent, LastOK, AnswerOK

\* What a call becomes with an answer.
LEMMA AnsweredFacts ==
    ASSUME call # Idle, CallOK, NEW a
    PROVE  /\ DOMAIN Answered(a) = CallFields
           /\ Answered(a).pc = "answered"
           /\ Answered(a).answer = a
           /\ \A f \in CallFields \ {"pc", "answer"} : Answered(a)[f] = call[f]
           /\ Answered(a) # Idle
BY DEF CallOK, CallFields, Answered, Idle

\* A step that answers the call, or none.
LEMMA AnswerStep ==
    ASSUME CInv, call # Idle, NEW a, call' = Answered(a),
           UNCHANGED <<mode, settings, calls, last>>,
           \/ a \in Foreign \cup {ErrorAnswer} \cup ({last} \ {NoReply})
           \/ call.reply # NoReply /\ a = Response(PassedOn(call.reply))
    PROVE  ProcessOK' /\ CallOK' /\ SentOK' /\ LastOK' /\ AnswerOK'
<1>1. /\ DOMAIN call' = CallFields /\ call'.pc = "answered" /\ call'.answer = a
      /\ call'.key = call.key /\ call'.sealed = call.sealed /\ call'.client = call.client
      /\ call'.from = call.from /\ call'.reply = call.reply /\ call' # Idle
      /\ call'.payload = call.payload
  BY AnsweredFacts DEF CInv, CallFields
<1>2. ProcessOK'
  BY DEF CInv, ProcessOK
<1>3. CallOK'
  BY <1>1 DEF CInv, CallOK
<1>4. SentOK'
  BY <1>1 DEF SentOK, IsSent
<1>5. LastOK'
  BY <1>1 DEF CInv, LastOK
<1>6. AnswerOK'
  BY <1>1 DEF AnswerOK, Response
<1> QED
  BY <1>2, <1>3, <1>4, <1>5, <1>6

\* The counters after a call was counted.
LEMMA Counting ==
    ASSUME CInv, call # Idle, mode = "up", settings = SettingsOf(env), env \in Environments,
           Count
    PROVE  CountersOK'
<1> DEFINE key == ClientIpKey(call.from)
<1>1. call.from \in Addresses
  BY DEF CInv, CallOK
<1>2. settings.limit \in Nat
  BY UsableSettings DEF CInv, ProcessOK
<1>3. ASSUME NEW n \in Nat PROVE CountedAs(n) \in Nat
  BY <1>2, <1>3 DEF CountedAs
<1>4. key \in {ClientIpKey(a) : a \in Addresses}
  BY <1>1
<1>5. hits' = [k \in DOMAIN hits \cup {key} |-> IF k = key THEN CountedAs(Hits(k)) ELSE hits[k]]
  BY DEF Count
<1> HIDE DEF key
<1>6. DOMAIN hits' \subseteq {ClientIpKey(a) : a \in Addresses}
  BY <1>4, <1>5 DEF CInv, CountersOK, Hits
<1>7. ASSUME NEW k \in DOMAIN hits' PROVE hits'[k] \in Nat
  <2>1. Hits(k) \in Nat
    BY DEF Hits, CInv, CountersOK
  <2> QED
    BY <1>3, <1>5, <1>7, <2>1 DEF CInv, CountersOK, Hits
<1>8. tried' \in [{Network(a) : a \in Addresses} -> Nat]
  <2>1. tried \in [{Network(a) : a \in Addresses} -> Nat]
    BY DEF CInv, CountersOK, Hits
  <2>2. tried' = [tried EXCEPT ![Network(call.from)] = CountedAs(@)]
    BY DEF Count
  <2>3. Network(call.from) \in {Network(a) : a \in Addresses}
    BY <1>1
  <2>4. CountedAs(tried[Network(call.from)]) \in Nat
    BY <1>3, <2>1, <2>3
  <2> QED
    BY <2>1, <2>2, <2>4
<1>9. ASSUME NEW a \in Addresses
      PROVE  Hits(ClientIpKey(a))' = tried'[Network(a)]
  <2>1. /\ tried \in [{Network(b) : b \in Addresses} -> Nat]
        /\ tried' = [tried EXCEPT ![Network(call.from)] = CountedAs(@)]
        /\ Network(a) \in {Network(b) : b \in Addresses}
        /\ Hits(ClientIpKey(a)) = tried[Network(a)]
    BY <1>9 DEF Count, CInv, CountersOK
  <2>2. ClientIpKey(a) = Network(a) /\ key = Network(call.from)
    BY <1>1, <1>9, AddressesAssumption, KeyIsNetwork DEF key
  <2>3. CASE Network(a) = Network(call.from)
    <3>1. hits'[key] = CountedAs(Hits(key)) /\ key \in DOMAIN hits'
      BY <1>5
    <3> QED
      BY <2>1, <2>2, <2>3, <3>1 DEF Hits
  <2>4. CASE Network(a) # Network(call.from)
    BY <1>5, <2>1, <2>2, <2>4 DEF Hits
  <2> QED
    BY <2>3, <2>4
<1> QED
  BY <1>6, <1>7, <1>8, <1>9 DEF CountersOK, Hits

\* Every step preserves the invariant.
LEMMA CInvStep == IInv /\ CInv /\ [Next]_vars => CInv'
<1> SUFFICES ASSUME IInv, CInv, [Next]_vars PROVE CInv'
  OBVIOUS
<1> USE DEF CInv
<1>0. Idle.pc = "idle" /\ settings = SettingsOf(env) /\ env \in Environments
  BY DEF Idle, IInv
<1>1. CASE Configure
  BY <1>0, <1>1 DEF Configure, ProcessOK, CallOK, SentOK, IsSent, LastOK, AnswerOK, CountersOK, Hits
<1>2. CASE Start
  <2>1. call = Idle /\ call' = Idle
    BY <1>2 DEF Start, ProcessOK
  <2> QED
    BY <1>0, <1>2, <2>1
       DEF Start, ProcessOK, CallOK, SentOK, IsSent, LastOK, AnswerOK, CountersOK, Hits
<1>3. CASE Stop
  <2>1. CountersOK'
    BY <1>3 DEF Stop, CountersOK, Hits
  <2> QED
    BY <1>0, <1>3, <2>1 DEF Stop, ProcessOK, CallOK, SentOK, IsSent, LastOK, AnswerOK
<1>4. ASSUME NEW c \in Calls(env), Begin(c)
      PROVE  CInv'
  <2>1. call' = [pc |-> "sent", key |-> calls + 1, payload |-> c.payload, from |-> c.from,
                 sealed |-> c.sealed, client |-> c.client, request |-> NoRequest,
                 reply |-> NoReply, answer |-> NoReply, result |-> Failed]
    BY <1>4 DEF Begin
  <2>2. /\ DOMAIN call' = CallFields /\ call'.pc = "sent" /\ call'.key = calls + 1
        /\ call'.sealed = c.sealed /\ call'.client = c.client /\ call'.from = c.from
        /\ call'.reply = NoReply /\ call'.payload = c.payload
    BY <2>1 DEF CallFields
  <2>3. /\ IsPayload(c.payload)
        /\ c.payload.url \notin {Empty, Malformed} => IsUrl(c.payload.url)
        /\ c.sealed \in BOOLEAN /\ c.client \in C!Kinds /\ c.from \in Addresses
    BY <1>0, CallsAssumption
  <2>4. calls \in Nat /\ calls' = calls + 1 /\ last' = last /\ mode = "up" /\ mode' = "up"
        /\ settings' = settings /\ hits' = hits /\ tried' = tried
    BY <1>4 DEF Begin, ProcessOK
  <2>5. ProcessOK'
    BY <2>4 DEF ProcessOK
  <2>6. CallOK'
    BY <2>2, <2>3, <2>4 DEF CallOK
  <2>7. LastOK'
    BY <2>2, <2>4 DEF LastOK
  <2>8. SentOK' /\ AnswerOK'
    BY <2>2 DEF SentOK, IsSent, AnswerOK
  <2>9. CountersOK'
    BY <2>4 DEF CountersOK, Hits
  <2> QED
    BY <2>5, <2>6, <2>7, <2>8, <2>9
<1>5. ASSUME Arrived
      PROVE  /\ call # Idle /\ mode = "up" /\ call.pc = "sent"
             /\ UNCHANGED <<mode, settings, calls, last>>
  BY <1>0, <1>5 DEF Arrived, ProcessOK
<1>6. CASE Limited \/ Refused
  <2>1. Arrived /\ Count /\ call' = Answered(ErrorAnswer)
    BY <1>6 DEF Limited, Refused
  <2>2. CountersOK'
    BY <1>0, <1>5, <2>1, Counting
  <2>3. ProcessOK' /\ CallOK' /\ SentOK' /\ LastOK' /\ AnswerOK'
    BY <1>5, <2>1, AnswerStep
  <2> QED
    BY <2>2, <2>3
<1>7. CASE Forwarded
  <2>1. Arrived /\ Count /\ ~Objection
        /\ call' = [call EXCEPT !.pc = "upstream", !.request = ToSend]
    BY <1>7 DEF Forwarded
  <2>2. CountersOK'
    BY <1>0, <1>5, <2>1, Counting
  <2>3. /\ DOMAIN call' = CallFields /\ call'.pc = "upstream" /\ call'.request = ToSend
        /\ call'.key = call.key /\ call'.payload = call.payload /\ call'.sealed = call.sealed
        /\ call'.client = call.client /\ call'.from = call.from /\ call'.reply = call.reply
        /\ call' # Idle
    BY <1>5, <2>1 DEF CallOK, CallFields, Idle
  <2>4. CallOK'
    BY <1>5, <2>1, <2>3 DEF CallOK
  <2>5. SentOK'
    BY <1>5, <2>1, <2>3 DEF SentOK, ToSend, Objection
  <2>6. LastOK' /\ AnswerOK' /\ ProcessOK'
    BY <1>5, <2>1, <2>3 DEF LastOK, AnswerOK, ProcessOK
  <2> QED
    BY <2>2, <2>4, <2>5, <2>6
<1>8. ASSUME NEW pc, NEW next, Proceed(pc, next), pc # "idle"
      PROVE  /\ call.pc = pc /\ call' = next /\ call # Idle
             /\ UNCHANGED <<mode, settings, calls, last>>
             /\ CountersOK' /\ ProcessOK'
  BY <1>0, <1>8 DEF Proceed, CountersOK, Hits, ProcessOK
<1>9. ASSUME NEW r \in Replies, UpstreamReplies(r)
      PROVE  CInv'
  <2>1. Proceed("upstream", [call EXCEPT !.pc = "replied", !.reply = r])
    BY <1>9 DEF UpstreamReplies
  <2>2. /\ call.pc = "upstream" /\ call # Idle
        /\ call' = [call EXCEPT !.pc = "replied", !.reply = r]
        /\ UNCHANGED <<mode, settings, calls, last>>
        /\ CountersOK' /\ ProcessOK'
    BY <1>8, <2>1
  <2>3. /\ DOMAIN call' = CallFields /\ call'.pc = "replied" /\ call'.reply = r
        /\ call'.key = call.key /\ call'.payload = call.payload /\ call'.sealed = call.sealed
        /\ call'.client = call.client /\ call'.from = call.from /\ call'.request = call.request
        /\ call' # Idle
    BY <2>2 DEF CallOK, CallFields, Idle
  <2>4. r # NoReply
    BY AnswersAssumption
  <2>5. CallOK'
    BY <2>2, <2>3, <2>4 DEF CallOK
  <2>6. SentOK'
    BY <2>2, <2>3 DEF SentOK, ToSend, IsSent
  <2>7. LastOK' /\ AnswerOK'
    BY <2>2, <2>3 DEF LastOK, AnswerOK
  <2> QED
    BY <2>2, <2>5, <2>6, <2>7
<1>10. ASSUME NEW pc \in {"sent", "upstream", "replied", "answered"},
              NEW a \in Foreign \cup {ErrorAnswer} \cup ({last} \ {NoReply}),
              Proceed(pc, Answered(a))
       PROVE  CInv'
  <2>1. /\ call # Idle /\ call' = Answered(a)
        /\ UNCHANGED <<mode, settings, calls, last>>
        /\ CountersOK'
    BY <1>8, <1>10
  <2> QED
    BY <2>1, AnswerStep
<1>11. CASE UpstreamFails
  BY <1>10, <1>11 DEF UpstreamFails
<1>12. ASSUME NEW a \in Foreign \cup ({last} \ {NoReply}), Replaced(a)
       PROVE  CInv'
  BY <1>10, <1>12 DEF Replaced
<1>13. CASE Respond
  <2> DEFINE a == Response(PassedOn(call.reply))
  <2>1. /\ call.pc = "replied" /\ call # Idle /\ call' = Answered(a)
        /\ last' = (IF settings.encrypt THEN a ELSE last)
        /\ UNCHANGED <<mode, settings, calls, hits, tried>>
    BY <1>0, <1>13 DEF Respond
  <2>2. call.reply # NoReply /\ call.reply \in Replies
    BY <2>1 DEF CallOK
  <2>3. /\ DOMAIN call' = CallFields /\ call'.pc = "answered" /\ call'.answer = a
        /\ call'.key = call.key /\ call'.sealed = call.sealed /\ call'.client = call.client
        /\ call'.from = call.from /\ call'.reply = call.reply /\ call' # Idle
        /\ call'.payload = call.payload
    BY <2>1, AnsweredFacts DEF CallFields
  <2>4. ProcessOK' /\ CountersOK'
    BY <2>1 DEF ProcessOK, CountersOK, Hits
  <2>5. CallOK'
    BY <2>1, <2>3 DEF CallOK
  <2>6. SentOK'
    BY <2>3 DEF SentOK, IsSent
  <2>7. AnswerOK'
    <3>1. settings' = settings /\ call'.reply = call.reply /\ call'.key = call.key
      BY <2>1, <2>3
    <3>2. Response(PassedOn(call.reply))' = a
      BY <3>1 DEF Response
    <3> HIDE DEF a
    <3> QED
      BY <2>2, <2>3, <3>1, <3>2, Zenon DEF AnswerOK
  <2>8. LastOK'
    <3>1. CASE settings.encrypt
      <4>1. last' = [code |-> 200, encrypted |-> TRUE, envelope |-> "whole", key |-> call.key,
                     content |-> PassedOn(call.reply)]
        BY <2>1, <3>1 DEF Response
      <4>2. call.key \in 1 .. calls
        BY <2>1 DEF CallOK
      <4> QED
        BY <2>1, <2>2, <2>3, <4>1, <4>2 DEF LastOK
    <3>2. CASE ~settings.encrypt
      BY <2>1, <2>3, <3>2 DEF LastOK
    <3> QED
      BY <3>1, <3>2
  <2> QED
    BY <2>4, <2>5, <2>6, <2>7, <2>8
<1>14. CASE Receive
  <2> DEFINE result == C!Received(call.client, call.answer, call.key, call.sealed)
  <2>1. Proceed("answered", [call EXCEPT !.pc = "ended", !.result = result])
    BY <1>14 DEF Receive
  <2>2. /\ call.pc = "answered" /\ call # Idle
        /\ call' = [call EXCEPT !.pc = "ended", !.result = result]
        /\ UNCHANGED <<mode, settings, calls, last>>
        /\ CountersOK' /\ ProcessOK'
    BY <1>8, <2>1
  <2> HIDE DEF result
  <2>3. /\ DOMAIN call' = CallFields /\ call'.pc = "ended" /\ call'.reply = call.reply
        /\ call'.key = call.key /\ call'.sealed = call.sealed
        /\ call'.client = call.client /\ call'.from = call.from
        /\ call'.payload = call.payload /\ call' # Idle
    BY <2>2 DEF CallOK, CallFields, Idle
  <2>4. CallOK'
    BY <2>2, <2>3 DEF CallOK
  <2>5. SentOK' /\ AnswerOK'
    BY <2>3 DEF SentOK, IsSent, AnswerOK
  <2>6. LastOK'
    BY <2>2, <2>3 DEF LastOK
  <2> QED
    BY <2>2, <2>4, <2>5, <2>6
<1>15. CASE Done
  <2>1. Proceed("ended", Idle)
    BY <1>15 DEF Done
  <2>2. call' = Idle /\ UNCHANGED <<mode, settings, calls, last>> /\ CountersOK' /\ ProcessOK'
    BY <1>8, <2>1
  <2> QED
    BY <1>0, <2>2 DEF CallOK, SentOK, IsSent, LastOK, AnswerOK
<1>16. ASSUME NEW a \in Addresses, WindowEnds(a)
       PROVE  CInv'
  <2>1. UNCHANGED <<mode, settings, call, calls, last>>
    BY <1>16 DEF WindowEnds
  <2>2. CountersOK'
    <3> DEFINE key == ClientIpKey(a)
    <3>1. /\ hits' = [k \in DOMAIN hits \ {key} |-> hits[k]]
          /\ tried' = [tried EXCEPT ![Network(a)] = 0]
          /\ tried \in [{Network(b) : b \in Addresses} -> Nat]
      BY <1>16 DEF WindowEnds, CountersOK
    <3>2. ASSUME NEW b \in Addresses
          PROVE  Hits(ClientIpKey(b))' = tried'[Network(b)]
      <4>1. /\ ClientIpKey(b) = Network(b) /\ key = Network(a)
            /\ Hits(ClientIpKey(b)) = tried[Network(b)]
            /\ Network(b) \in DOMAIN tried
        BY <3>1, AddressesAssumption, KeyIsNetwork DEF CountersOK
      <4> HIDE DEF key
      <4>2. CASE Network(b) = Network(a)
        BY <3>1, <4>1, <4>2 DEF Hits
      <4>3. CASE Network(b) # Network(a)
        BY <3>1, <4>1, <4>3 DEF Hits
      <4> QED
        BY <4>2, <4>3
    <3>3. /\ DOMAIN hits' \subseteq {ClientIpKey(b) : b \in Addresses}
          /\ \A k \in DOMAIN hits' : hits'[k] \in Nat
          /\ tried' \in [{Network(b) : b \in Addresses} -> Nat]
      BY <3>1 DEF CountersOK
    <3> QED
      BY <3>2, <3>3 DEF CountersOK
  <2> QED
    BY <2>1, <2>2 DEF ProcessOK, CallOK, SentOK, IsSent, ToSend, LastOK, AnswerOK, Response
<1>17. CASE (\E o \in Offers(env) : Offer(o)) \/ UNCHANGED vars
  <2>1. UNCHANGED <<mode, settings, call, calls, last, hits, tried>>
    BY <1>17 DEF Offer, vars
  <2> QED
    BY <2>1
       DEF ProcessOK, CallOK, SentOK, IsSent, ToSend, LastOK, AnswerOK, Response, CountersOK, Hits
<1> QED
  BY <1>1, <1>2, <1>3, <1>4, <1>6, <1>7, <1>9, <1>11, <1>12, <1>13, <1>14, <1>15, <1>16, <1>17
     DEF Next

-----------------------------------------------------------------------------
(* Theorems about calls.                                                   *)

\* Both invariants hold in every reachable state.
LEMMA CInvAlways == Spec => [](IInv /\ CInv)
<1>1. Init => IInv /\ CInv
  BY InvInit, CInvInit
<1>2. IInv /\ CInv /\ [Next]_vars => IInv' /\ CInv'
  BY InvStep, CInvStep
<1> QED
  BY <1>1, <1>2, PTL DEF Spec

\* Settings and call are well formed in every reachable state; a process that
\* runs has settings of their types.
THEOREM TypeCorrect == Spec => []TypeOK
<1>1. ASSUME IInv, CInv
      PROVE  TypeOK
  <2>1. env \in Environments /\ settings = SettingsOf(env)
    BY <1>1 DEF IInv
  <2>2. mode = "up" =>
          /\ settings.rules \in SUBSET [method : AllowedMethods \cup {"*"}, prefix : BOOLEAN,
                                        host : {r.host : r \in settings.rules},
                                        path : {r.path : r \in settings.rules}]
          /\ settings.allowHttp \in BOOLEAN /\ settings.encrypt \in BOOLEAN
          /\ settings.limit \in Nat \ {0} /\ settings.timeout \in Nat \ {0}
          /\ settings.device \in {"required", "report"}
          /\ settings.store \in {"memory", "upstash"}
    <3> SUFFICES ASSUME mode = "up"
                 PROVE  /\ settings.rules \in
                              SUBSET [method : AllowedMethods \cup {"*"}, prefix : BOOLEAN,
                                      host : {r.host : r \in settings.rules},
                                      path : {r.path : r \in settings.rules}]
                        /\ settings.allowHttp \in BOOLEAN /\ settings.encrypt \in BOOLEAN
                        /\ settings.limit \in Nat \ {0} /\ settings.timeout \in Nat \ {0}
                        /\ settings.device \in {"required", "report"}
                        /\ settings.store \in {"memory", "upstash"}
      OBVIOUS
    <3>1. Usable(SettingsOf(env))
      BY <1>1, <2>1 DEF CInv, ProcessOK
    <3> QED
      BY <2>1, <3>1, UsableSettings, Zenon
  <2>3. call.pc \in {"idle", "sent", "upstream", "replied", "answered", "ended"}
    BY <1>1 DEF CInv, CallOK, Idle
  <2>4. mode \in {"down", "failed", "up"} /\ calls \in Nat
    BY <1>1 DEF CInv, ProcessOK
  <2>5. /\ DOMAIN hits \subseteq {ClientIpKey(a) : a \in Addresses}
        /\ \A k \in DOMAIN hits : hits[k] \in Nat
        /\ tried \in [{Network(a) : a \in Addresses} -> Nat]
    BY <1>1 DEF CInv, CountersOK
  <2> QED
    BY <2>1, <2>2, <2>3, <2>4, <2>5, Zenon DEF TypeOK
<1> QED
  BY <1>1, CInvAlways, PTL

\* What the upstream answered leaves the gateway in plain only if ENCRYPT_RESPONSE
\* is exactly false (strictBoolean in the constructor of ProxyController).
THEOREM PlainByChoice == Spec => []PlainOnlyByChoice
<1>1. ASSUME IInv, CInv, call.pc = "answered", call.answer \notin Foreign,
             call.answer.encrypted = FALSE
      PROVE  env.ENCRYPT_RESPONSE = FALSE
  <2>1. call # Idle
    BY <1>1 DEF Idle
  <2>2. Usable(SettingsOf(env)) /\ settings = SettingsOf(env) /\ env \in Environments
    BY <1>1, <2>1 DEF IInv, CInv, ProcessOK
  <2>3. call.answer # ErrorAnswer
    <3>1. Absent # FALSE
      BY AnswersAssumption, Zenon
    <3>2. ErrorAnswer.encrypted = Absent
      BY DEF ErrorAnswer
    <3> QED
      BY <1>1, <3>1, <3>2, Zenon
  <2>4. last # NoReply => call.answer # last
    BY <1>1 DEF CInv, LastOK
  <2>5. call.answer = Response(PassedOn(call.reply))
    BY <1>1, <2>3, <2>4 DEF CInv, AnswerOK
  <2>6. settings.encrypt \in BOOLEAN /\ (settings.encrypt = FALSE => env.ENCRYPT_RESPONSE = FALSE)
    BY <2>2, UsableSettings, Zenon
  <2> QED
    BY <1>1, <2>5, <2>6 DEF Response
<1>2. IInv /\ CInv => PlainOnlyByChoice
  BY <1>1 DEF PlainOnlyByChoice
<1> QED
  BY <1>2, CInvAlways, PTL

\* The headers that are sent: those that the client wrote, but for the banned.
LEMMA HeadersKept ==
    ASSUME NEW header, NormalizeHeaders(header) # Thrown
    PROVE  DOMAIN NormalizeHeaders(header) =
              {p.key : p \in {q \in Written(header) :
                  q.key.word \notin BlockedHeaders \cup ForwardedFamily
                                       \cup Nominated(Pairs(header))}}
<1> DEFINE pairs == Pairs(header)
           banned == BlockedHeaders \cup ForwardedFamily \cup Nominated(pairs)
           kept == {i \in DOMAIN pairs : pairs[i].key.word \notin banned}
<1>1. DOMAIN NormalizeHeaders(header) = {pairs[i].key : i \in kept}
  BY Zenon DEF NormalizeHeaders
<1>2. Written(header) = {pairs[i] : i \in DOMAIN pairs}
  BY DEF Written
<1> HIDE DEF pairs, banned
<1>3. {pairs[i].key : i \in kept} = {p.key : p \in {q \in Written(header) : q.key.word \notin banned}}
  BY <1>2
<1> QED
  BY <1>1, <1>3 DEF banned, pairs

\* A name is nominated if a Connection header that the client wrote has it.
LEMMA NominatedNames ==
    ASSUME NEW header, NEW word
    PROVE  word \in Nominated(Pairs(header)) <=>
              \E c \in Written(header) : c.key.word = "connection" /\ word \in c.value.items
BY DEF Nominated, Connections, Written

\* A header that the client wrote is sent upstream if and only if it is neither
\* one that clients must not control nor named by a Connection header, whatever
\* their order, shape and spelling (normalizeHeaders of ProxyService).
THEOREM HeadersAreClean == Spec => []HeadersClean
<1>1. ASSUME CInv, IsSent, NEW p \in Written(call.payload.header)
      PROVE  p.key \in DOMAIN call.request.headers <=>
                /\ p.key.word \notin BlockedHeaders \cup ForwardedFamily
                /\ \A c \in Written(call.payload.header) :
                      c.key.word = "connection" => p.key.word \notin c.value.items
  <2> DEFINE header == call.payload.header
  <2>1. ToSend # Thrown /\ call.request = ToSend
    BY <1>1 DEF CInv, SentOK
  <2>2. /\ NormalizeHeaders(header) # Thrown
        /\ call.request.headers = NormalizeHeaders(header)
    BY <2>1 DEF ToSend, Forward
  <2>3. DOMAIN call.request.headers =
           {q.key : q \in {x \in Written(header) :
               x.key.word \notin BlockedHeaders \cup ForwardedFamily
                                    \cup Nominated(Pairs(header))}}
    BY <2>2, HeadersKept
  <2>4. p.key \in DOMAIN call.request.headers <=>
           p.key.word \notin BlockedHeaders \cup ForwardedFamily \cup Nominated(Pairs(header))
    <3> HIDE DEF header
    <3> QED
      BY <1>1, <2>3 DEF header
  <2> QED
    BY <2>4, NominatedNames
<1>2. CInv => HeadersClean
  BY <1>1 DEF HeadersClean
<1> QED
  BY <1>2, CInvAlways, PTL

-----------------------------------------------------------------------------
(* Which paths the rules cover.                                            *)

Chars == Characters \cup {"/"}

\* What is written of a path after each of its segments.
IsWritten(t, path) ==
    /\ t \in [0 .. Len(path) -> Seq(Chars)]
    /\ t[0] = <<>>
    /\ \A k \in 1 .. Len(path) : t[k] = t[k - 1] \o (<<"/">> \o path[k])
    /\ t[Len(path)] = Text(path)

\* A segment and its slash.
LEMMA SlashedSegment ==
    ASSUME NEW path \in Seq(Seq(Characters)), NEW k \in 1 .. Len(path)
    PROVE  <<"/">> \o path[k] \in Seq(Chars)
<1>1. path[k] \in Seq(Characters) /\ Characters \subseteq Chars /\ <<"/">> \in Seq(Chars)
  BY DEF Chars
<1>2. path[k] \in Seq(Chars)
  BY <1>1, SeqMonotonic
<1> QED
  BY <1>1, <1>2

\* The text is written segment by segment.
LEMMA WrittenExists ==
    ASSUME NEW path \in Seq(Seq(Characters))
    PROVE  \E t : IsWritten(t, path)
<1> DEFINE n == Len(path)
           seqs == [i \in DOMAIN path |-> <<"/">> \o path[i]]
           next == [k \in 1 .. n |-> [text \in Seq(Chars) |-> text \o seqs[k]]]
           Body(f) == [i \in 1 .. Len(seqs) |-> IF i = 1 THEN seqs[i] ELSE f[i - 1] \o seqs[i]]
           flatten == CHOOSE f : f = Body(f)
<1>1. /\ n \in Nat /\ DOMAIN path = 1 .. n /\ Len(seqs) = n
      /\ \A k \in 1 .. n : seqs[k] = <<"/">> \o path[k]
  <2>1. n \in Nat /\ DOMAIN path = 1 .. n
    OBVIOUS
  <2> DEFINE slashed(i) == <<"/">> \o path[i]
  <2>2. seqs = [i \in 1 .. n |-> slashed(i)]
    BY <2>1
  <2> HIDE DEF seqs, n, slashed
  <2>3. Len(seqs) = n /\ \A k \in 1 .. n : seqs[k] = slashed(k)
    BY <2>1, <2>2
  <2> QED
    BY <2>1, <2>3 DEF slashed
<1>2. \A k \in 1 .. n : seqs[k] \in Seq(Chars)
  BY <1>1, SlashedSegment
<1> HIDE DEF seqs, n
<1>3. next \in [1 .. n -> [Seq(Chars) -> Seq(Chars)]] /\ <<>> \in Seq(Chars)
  BY <1>2
<1>4. PICK t :
         /\ t \in [0 .. n -> Seq(Chars)]
         /\ t[0] = <<>>
         /\ \A k \in 1 .. n : t[k] = next[k][t[k - 1]]
  <2> HIDE DEF next, Body, flatten
  <2> DEFINE S == Seq(Chars)
             first == <<>>
  <2>1. first \in S /\ next \in [1 .. n -> [S -> S]]
    BY <1>3
  <2> HIDE DEF S, first
  <2>2. n \in Nat
    BY <1>1
  <2>3. \E t : Unfolds(t, n, S, first, next)
    BY <2>1, <2>2, ByRecursion
  <2> QED
    BY <2>3 DEF S, first, Unfolds
<1>5. ASSUME NEW k \in 1 .. n
      PROVE  t[k - 1] \in Seq(Chars) /\ t[k] = t[k - 1] \o seqs[k]
  <2>1. k - 1 \in 0 .. n
    BY <1>1
  <2> QED
    BY <1>4, <2>1
<1>6. ASSUME NEW k \in 1 .. n, k = 1
      PROVE  t[k] = seqs[k]
  <2>1. t[k - 1] = <<>>
    BY <1>4, <1>6
  <2>2. t[k] = <<>> \o seqs[k] /\ seqs[k] \in Seq(Chars)
    BY <1>2, <1>5, <2>1
  <2> QED
    BY <2>2
<1>7. flatten = Body(flatten)
  <2> DEFINE g == [i \in 1 .. n |-> t[i]]
  <2>1. ASSUME NEW i \in 1 .. n
        PROVE  g[i] = IF i = 1 THEN seqs[i] ELSE g[i - 1] \o seqs[i]
    <3>1. CASE i = 1
      BY <1>6, <3>1
    <3>2. CASE i # 1
      <4>1. i - 1 \in 1 .. n
        BY <1>1, <3>2
      <4> QED
        BY <1>5, <3>2, <4>1
    <3> QED
      BY <3>1, <3>2
  <2>2. g = Body(g)
    <3> HIDE DEF g
    <3>1. g = [i \in 1 .. n |-> g[i]]
      BY DEF g
    <3> QED
      BY <1>1, <2>1, <3>1
  <2> HIDE DEF Body
  <2> QED
    BY <2>2
<1>8. ASSUME NEW i \in 1 .. n
      PROVE  flatten[i] = IF i = 1 THEN seqs[i] ELSE flatten[i - 1] \o seqs[i]
  <2> HIDE DEF flatten
  <2> QED
    BY <1>1, <1>7
<1> HIDE DEF flatten
<1> DEFINE G == {k \in 0 .. n : k = 0 \/ flatten[k] = t[k]}
<1>9. ASSUME NEW k \in 0 .. n, k # n, k \in G
      PROVE  k + 1 \in G
  <2>1. k + 1 \in 1 .. n /\ k + 1 - 1 = k
    BY <1>1, <1>9
  <2>2. CASE k = 0
    BY <1>6, <1>8, <2>1, <2>2
  <2>3. CASE k # 0
    <3>1. k \in 0 .. n /\ flatten[k] = t[k] /\ k + 1 # 1
      BY <1>9, <2>3
    <3>2. PICK i \in 1 .. n : i = k + 1 /\ i - 1 = k /\ i # 1
      BY <2>1, <3>1
    <3>3. flatten[i] = flatten[k] \o seqs[i] /\ t[i] = t[k] \o seqs[i]
      <4> HIDE DEF G
      <4>1. t[i] = t[i - 1] \o seqs[i]
        BY <1>5
      <4>2. flatten[i] = flatten[i - 1] \o seqs[i]
        BY <1>8, <3>2
      <4> QED
        BY <3>2, <4>1, <4>2
    <3>4. flatten[k + 1] = t[k + 1]
      BY <3>1, <3>2, <3>3
    <3> QED
      BY <1>1, <1>9, <3>4
  <2> QED
    BY <2>2, <2>3
<1>10. n \in G
  <2>1. 0 \in G
    BY <1>1
  <2> HIDE DEF G
  <2> QED
    <3>1. n \in Nat
      BY <1>1
    <3>2. \A k \in 0 .. n : k # n /\ k \in G => k + 1 \in G
      BY <1>9
    <3>3. 0 .. n \subseteq G
      BY <2>1, <3>1, <3>2, UpTo
    <3> QED
      BY <3>1, <3>3
<1>11. Text(path) = IF Len(seqs) = 0 THEN seqs ELSE flatten[Len(seqs)]
  BY Zenon DEF Text, FlattenSeq, flatten, seqs
<1>12. t[n] = Text(path)
  <2>1. CASE n = 0
    BY <1>1, <1>4, <1>11, <2>1 DEF seqs
  <2>2. CASE n # 0
    BY <1>1, <1>10, <1>11, <2>2
  <2> QED
    BY <2>1, <2>2
<1> QED
  BY <1>1, <1>4, <1>5, <1>12 DEF IsWritten, n

Begins(s, u) == Len(s) <= Len(u) /\ \A j \in 1 .. Len(s) : u[j] = s[j]

LEMMA PrefixBegins ==
    ASSUME NEW X, NEW s \in Seq(X), NEW u \in Seq(X)
    PROVE  IsPrefix(s, u) <=> Begins(s, u)
<1>1. CASE Len(s) <= Len(u)
  <2>1. SubSeq(s, 1, Len(s)) = s
    OBVIOUS
  <2> DEFINE v == SubSeq(u, 1, Len(s))
  <2>2. v \in Seq(X) /\ Len(v) = Len(s) /\ \A j \in 1 .. Len(s) : v[j] = u[j]
    BY <1>1
  <2> HIDE DEF v
  <2>3. s = v <=> \A j \in 1 .. Len(s) : s[j] = v[j]
    BY <2>2, SeqEqual
  <2>4. IsPrefix(s, u) <=> s = v
    BY <1>1, <2>1 DEF IsPrefix, v
  <2> QED
    BY <1>1, <2>2, <2>3, <2>4 DEF Begins
<1>2. CASE ~(Len(s) <= Len(u))
  BY <1>2 DEF IsPrefix, Begins
<1> QED
  BY <1>1, <1>2

\* A segment stands in a text, with its slash, after the first a characters.
Stands(segment, text, a) ==
    /\ a + 1 + Len(segment) <= Len(text)
    /\ text[a + 1] = "/"
    /\ \A j \in 1 .. Len(segment) : text[a + 1 + j] = segment[j]

\* One segment more.
LEMMA WrittenStep ==
    ASSUME NEW path \in Seq(Seq(Characters)), NEW t, IsWritten(t, path),
           NEW k \in 1 .. Len(path)
    PROVE  /\ path[k] \in Seq(Characters) /\ t[k] \in Seq(Chars) /\ t[k - 1] \in Seq(Chars)
           /\ Len(t[k]) = Len(t[k - 1]) + 1 + Len(path[k])
           /\ Begins(t[k - 1], t[k])
           /\ Stands(path[k], t[k], Len(t[k - 1]))
<1>1. k - 1 \in 0 .. Len(path) /\ k \in 0 .. Len(path)
  OBVIOUS
<1>2. t[k] \in Seq(Chars) /\ t[k - 1] \in Seq(Chars) /\ t[k] = t[k - 1] \o (<<"/">> \o path[k])
  BY <1>1 DEF IsWritten
<1> DEFINE s == <<"/">> \o path[k]
           u == t[k - 1]
           w == u \o s
           m == Len(path[k])
<1>3. path[k] \in Seq(Characters)
  OBVIOUS
<1>4. /\ s \in Seq(Chars) /\ Len(s) = 1 + m
      /\ s[1] = "/" /\ \A j \in 1 .. m : s[1 + j] = path[k][j]
  BY <1>3, SlashedSegment
<1>5. u \in Seq(Chars) /\ t[k] = w /\ m \in Nat /\ Len(u) \in Nat
  BY <1>2, <1>3
<1> HIDE DEF s, u
<1>6. /\ Len(w) = Len(u) + Len(s)
      /\ \A j \in 1 .. Len(u) : w[j] = u[j]
      /\ \A j \in 1 .. Len(s) : w[Len(u) + j] = s[j]
  <2>1. u \in Seq(Chars) /\ s \in Seq(Chars)
    BY <1>4, <1>5
  <2> QED
    BY <2>1, Concatenated
<1> HIDE DEF w, m
<1>7. w[Len(u) + 1] = "/"
  <2>1. 1 \in 1 .. Len(s)
    BY <1>4, <1>5
  <2> QED
    BY <1>4, <1>6, <2>1
<1>8. ASSUME NEW j \in 1 .. m
      PROVE  w[Len(u) + 1 + j] = path[k][j]
  <2>1. 1 + j \in 1 .. Len(s) /\ Len(u) + (1 + j) = Len(u) + 1 + j
    BY <1>4, <1>5
  <2> QED
    BY <1>4, <1>6, <2>1
<1>9. Len(w) = Len(u) + 1 + m
  BY <1>4, <1>5, <1>6
<1>10. Begins(u, w) /\ Stands(path[k], w, Len(u))
  <2>1. Begins(u, w)
    BY <1>5, <1>6, <1>9 DEF Begins
  <2>2. Len(u) + 1 + m <= Len(w)
    BY <1>5, <1>9
  <2>3. Stands(path[k], w, Len(u))
    BY <1>7, <1>8, <2>2 DEF Stands, m
  <2> QED
    BY <2>1, <2>3
<1> QED
  BY <1>2, <1>3, <1>5, <1>9, <1>10 DEF u, m

LEMMA BeginsTransitive ==
    ASSUME NEW X, NEW s \in Seq(X), NEW u \in Seq(X), NEW w \in Seq(X),
           Begins(s, u), Begins(u, w)
    PROVE  Begins(s, w)
<1>1. Len(s) \in Nat /\ Len(u) \in Nat /\ Len(w) \in Nat
  OBVIOUS
<1> QED
  BY <1>1 DEF Begins

\* The text begins with what is written after each segment.
LEMMA TextBegins ==
    ASSUME NEW path \in Seq(Seq(Characters)), NEW t, IsWritten(t, path)
    PROVE  \A k \in 0 .. Len(path) : Begins(t[k], Text(path)) /\ t[k] \in Seq(Chars)
<1> DEFINE n == Len(path)
           G == {d \in 0 .. n : Begins(t[n - d], t[n])}
<1>1. n \in Nat /\ t \in [0 .. n -> Seq(Chars)] /\ n \in 0 .. n
  BY DEF IsWritten
<1>2. 0 \in G
  <2>1. n - 0 = n /\ Len(t[n]) <= Len(t[n]) /\ 0 \in 0 .. n
    BY <1>1
  <2> QED
    BY <2>1 DEF Begins
<1>3. \A d \in 0 .. n : d # n /\ d \in G => d + 1 \in G
  <2> SUFFICES ASSUME NEW d \in 0 .. n, d # n, d \in G
               PROVE  d + 1 \in G
    OBVIOUS
  <2>1. PICK k \in 1 .. n : k = n - d /\ k - 1 = n - (d + 1) /\ d + 1 \in 0 .. n
    BY <1>1
  <2>2. Begins(t[k], t[n])
    BY <2>1
  <2>3. t[k] \in Seq(Chars) /\ t[k - 1] \in Seq(Chars) /\ Begins(t[k - 1], t[k])
    <3> HIDE DEF G
    <3> QED
      BY WrittenStep
  <2>4. Begins(t[k - 1], t[n])
    <3> HIDE DEF G
    <3>1. t[n] \in Seq(Chars)
      BY <1>1
    <3> QED
      BY <2>2, <2>3, <3>1, BeginsTransitive
  <2> QED
    BY <2>1, <2>4
<1>4. 0 .. n \subseteq G
  <2> HIDE DEF G
  <2> QED
    BY <1>1, <1>2, <1>3, UpTo
<1>5. ASSUME NEW k \in 0 .. n
      PROVE  Begins(t[k], t[n])
  <2>1. n - k \in 0 .. n /\ n - (n - k) = k
    BY <1>1
  <2>2. Begins(t[n - (n - k)], t[n])
    BY <1>4, <2>1
  <2> QED
    BY <2>1, <2>2
<1>6. t[n] = Text(path)
  BY DEF IsWritten
<1> QED
  BY <1>1, <1>5, <1>6

\* What stands in a text stands in every longer one.
LEMMA StandsOn ==
    ASSUME NEW s \in Seq(Characters), NEW u \in Seq(Chars), NEW w \in Seq(Chars), NEW a \in Nat,
           Stands(s, u, a), Begins(u, w)
    PROVE  Stands(s, w, a)
<1>1. Len(s) \in Nat /\ Len(u) \in Nat /\ Len(w) \in Nat
  OBVIOUS
<1>2. a + 1 \in 1 .. Len(u) /\ \A j \in 1 .. Len(s) : a + 1 + j \in 1 .. Len(u)
  BY <1>1 DEF Stands
<1> QED
  BY <1>1, <1>2 DEF Stands, Begins

\* Where a segment stands in the text.
LEMMA TextSegment ==
    ASSUME NEW path \in Seq(Seq(Characters)), NEW t, IsWritten(t, path),
           NEW k \in 1 .. Len(path)
    PROVE  /\ path[k] \in Seq(Characters) /\ Text(path) \in Seq(Chars)
           /\ t[k] \in Seq(Chars) /\ t[k - 1] \in Seq(Chars)
           /\ Len(t[k]) = Len(t[k - 1]) + 1 + Len(path[k])
           /\ Begins(t[k], Text(path))
           /\ k = Len(path) => t[k] = Text(path)
           /\ Stands(path[k], Text(path), Len(t[k - 1]))
<1>1. k \in 0 .. Len(path) /\ Len(path) \in 0 .. Len(path)
  OBVIOUS
<1>2. Begins(t[k], Text(path)) /\ Text(path) = t[Len(path)] /\ Text(path) \in Seq(Chars)
  BY <1>1, TextBegins DEF IsWritten
<1>3. /\ path[k] \in Seq(Characters) /\ t[k] \in Seq(Chars) /\ t[k - 1] \in Seq(Chars)
      /\ Len(t[k]) = Len(t[k - 1]) + 1 + Len(path[k])
      /\ Stands(path[k], t[k], Len(t[k - 1]))
  BY WrittenStep
<1>4. Stands(path[k], Text(path), Len(t[k - 1]))
  <2> DEFINE a == Len(t[k - 1])
  <2>1. a \in Nat
    BY <1>3
  <2> HIDE DEF a
  <2>2. Stands(path[k], t[k], a)
    BY <1>3 DEF a
  <2>3. Stands(path[k], Text(path), a)
    BY <1>2, <1>3, <2>1, <2>2, StandsOn
  <2> QED
    BY <2>3 DEF a
<1> QED
  BY <1>2, <1>3, <1>4

\* A segment ends where the text ends or the next slash stands.
Ends(segment, text, a) ==
    Len(text) > a + 1 + Len(segment) => text[a + 1 + Len(segment) + 1] = "/"

LEMMA SegmentEnds ==
    ASSUME NEW path \in Seq(Seq(Characters)), NEW t, IsWritten(t, path),
           NEW k \in 1 .. Len(path)
    PROVE  Ends(path[k], Text(path), Len(t[k - 1]))
<1>1. Len(t[k]) = Len(t[k - 1]) + 1 + Len(path[k])
  BY TextSegment
<1>2. CASE k = Len(path)
  <2>1. t[k] = Text(path) /\ t[k] \in Seq(Chars)
    BY <1>2, TextSegment
  <2> DEFINE end == Len(t[k - 1]) + 1 + Len(path[k])
  <2>2. Len(t[k]) \in Nat /\ Len(t[k]) = Len(Text(path))
    BY <2>1
  <2>3. ~(Len(Text(path)) > end)
    <3>1. Len(t[k]) = end
      BY <1>1
    <3> HIDE DEF end
    <3> QED
      BY <2>2, <3>1
  <2> QED
    BY <2>3 DEF Ends
<1>3. CASE k # Len(path)
  <2>1. PICK l \in 1 .. Len(path) : l = k + 1 /\ l - 1 = k
    BY <1>3
  <2>2. Stands(path[l], Text(path), Len(t[l - 1]))
    BY TextSegment
  <2>3. Text(path)[Len(t[k]) + 1] = "/"
    BY <2>1, <2>2 DEF Stands
  <2> QED
    BY <1>1, <2>3 DEF Ends
<1> QED
  BY <1>2, <1>3

\* Two segments at the same place of one text are one, as no character is a slash.
LEMMA SameSegment ==
    ASSUME NEW s \in Seq(Characters), NEW r \in Seq(Characters),
           NEW u \in Seq(Chars), NEW w \in Seq(Chars), NEW a \in Nat,
           Stands(s, u, a), Len(u) > a + 1 + Len(s), Ends(s, u, a), Begins(u, w),
           Stands(r, w, a), Ends(r, w, a)
    PROVE  s = r
<1> DEFINE m == Len(s)
           n == Len(r)
<1>1. m \in Nat /\ n \in Nat /\ Len(u) \in Nat /\ Len(w) \in Nat
  OBVIOUS
<1>2. /\ \A j \in 1 .. m : s[j] \in Characters
      /\ \A j \in 1 .. n : r[j] \in Characters
  OBVIOUS
<1> HIDE DEF m, n
<1>3. /\ a + 1 + m < Len(u) /\ Len(u) <= Len(w) /\ u[a + 1 + m + 1] = "/"
      /\ \A j \in 1 .. m : u[a + 1 + j] = s[j]
  BY DEF Stands, Ends, Begins, m
<1>4. /\ a + 1 + n <= Len(w)
      /\ \A j \in 1 .. n : w[a + 1 + j] = r[j]
      /\ Len(w) > a + 1 + n => w[a + 1 + n + 1] = "/"
  BY DEF Stands, Ends, n
<1>5. \A i \in 1 .. Len(u) : w[i] = u[i]
  BY DEF Begins
<1>6. \A j \in 1 .. m : w[a + 1 + j] = s[j]
  <2> SUFFICES ASSUME NEW j \in 1 .. m
               PROVE  w[a + 1 + j] = s[j]
    OBVIOUS
  <2>1. a + 1 + j \in 1 .. Len(u)
    BY <1>1, <1>3
  <2> QED
    BY <1>3, <1>5, <2>1
<1>7. w[a + 1 + m + 1] = "/" /\ a + 1 + m < Len(w)
  <2>1. a + 1 + m + 1 \in 1 .. Len(u)
    BY <1>1, <1>3
  <2> QED
    BY <1>1, <1>3, <1>5, <2>1
<1>8. ~(m < n)
  <2>1. SUFFICES ASSUME m < n PROVE FALSE
    OBVIOUS
  <2>2. m + 1 \in 1 .. n /\ a + 1 + (m + 1) = a + 1 + m + 1
    BY <1>1, <2>1
  <2>3. r[m + 1] = "/"
    BY <1>4, <1>7, <2>2
  <2> QED
    BY <1>2, <2>2, <2>3, CharactersAssumption
<1>9. ~(n < m)
  <2>1. SUFFICES ASSUME n < m PROVE FALSE
    OBVIOUS
  <2>2. n + 1 \in 1 .. m /\ a + 1 + (n + 1) = a + 1 + n + 1
    BY <1>1, <2>1
  <2>3. Len(w) > a + 1 + n
    BY <1>1, <1>7, <2>1
  <2>4. s[n + 1] = "/"
    BY <1>4, <1>6, <2>2, <2>3
  <2> QED
    BY <1>2, <2>2, <2>4, CharactersAssumption
<1>10. m = n
  BY <1>1, <1>8, <1>9
<1>11. \A j \in 1 .. m : s[j] = r[j]
  BY <1>4, <1>6, <1>10
<1> QED
  BY <1>10, <1>11, SeqEqual DEF m, n

\* Paths with the same first segments are written alike so far.
LEMMA WrittenAlike ==
    ASSUME NEW path \in Seq(Seq(Characters)), NEW t, IsWritten(t, path),
           NEW other \in Seq(Seq(Characters)), NEW u, IsWritten(u, other),
           NEW n \in Nat, n <= Len(path), n <= Len(other), \A i \in 1 .. n : path[i] = other[i]
    PROVE  t[n] = u[n]
<1> DEFINE G == {k \in 0 .. n : t[k] = u[k]}
<1>1. 0 \in G
  BY DEF IsWritten
<1>2. \A k \in 0 .. n : k # n /\ k \in G => k + 1 \in G
  <2> SUFFICES ASSUME NEW k \in 0 .. n, k # n, k \in G
               PROVE  k + 1 \in G
    OBVIOUS
  <2>1. PICK l \in 1 .. n : l = k + 1 /\ l - 1 = k
    OBVIOUS
  <2>2. l \in 1 .. Len(path) /\ l \in 1 .. Len(other)
    OBVIOUS
  <2>3. t[l] = t[l - 1] \o (<<"/">> \o path[l]) /\ u[l] = u[l - 1] \o (<<"/">> \o other[l])
    BY <2>2 DEF IsWritten
  <2>4. t[l - 1] = u[l - 1] /\ path[l] = other[l]
    BY <2>1
  <2>5. t[l] = u[l]
    BY <2>3, <2>4
  <2> QED
    BY <2>1, <2>5
<1>3. 0 .. n \subseteq G
  <2> HIDE DEF G
  <2> QED
    BY <1>1, <1>2, UpTo
<1> QED
  BY <1>3

\* The text of a path that ends in a slash begins another one exactly if all its
\* segments begin the other, and something follows.
LEMMA TextIsSegments ==
    ASSUME NEW path \in Seq(Seq(Characters)), NEW other \in Seq(Seq(Characters)),
           path # <<>>, Last(path) = <<>>
    PROVE  LET n == Len(path)
           IN  IsPrefix(Text(path), Text(other)) <=>
                  n <= Len(other) /\ \A i \in 1 .. n - 1 : path[i] = other[i]
<1> DEFINE n == Len(path)
           m == Len(other)
           u == Text(path)
           w == Text(other)
<1>1. n \in Nat /\ m \in Nat /\ n > 0 /\ n \in 1 .. n /\ path[n] = <<>>
  BY DEF Last
<1>2. PICK p : IsWritten(p, path)
  BY WrittenExists
<1>3. PICK q : IsWritten(q, other)
  BY WrittenExists
<1> DEFINE before == Len(p[n - 1])
<1>4. /\ u \in Seq(Chars) /\ p[n - 1] \in Seq(Chars) /\ u = p[n]
      /\ before \in Nat /\ Len(u) = before + 1 /\ u[before + 1] = "/"
  <2>1. /\ path[n] \in Seq(Characters) /\ u \in Seq(Chars) /\ p[n - 1] \in Seq(Chars)
        /\ Len(p[n]) = before + 1 + Len(path[n]) /\ p[n] = u
        /\ Stands(path[n], u, before)
    BY <1>1, <1>2, TextSegment
  <2>2. Len(path[n]) = 0 /\ before \in Nat /\ Len(u) = before + 1 + 0
    <3>1. Len(path[n]) = 0
      BY <1>1
    <3>2. before \in Nat
      BY <2>1
    <3> QED
      BY <2>1, <3>1, <3>2
  <2> QED
    BY <2>1, <2>2 DEF Stands
<1>5. w \in Seq(Chars) /\ \A k \in 0 .. m : Begins(q[k], w) /\ q[k] \in Seq(Chars)
  <2>1. \A k \in 0 .. m : Begins(q[k], w) /\ q[k] \in Seq(Chars)
    BY <1>3, TextBegins
  <2>2. w = q[m] /\ m \in 0 .. m
    BY <1>1, <1>3 DEF IsWritten
  <2> QED
    BY <2>1, <2>2
<1>6. IsPrefix(u, w) <=> Begins(u, w)
  BY <1>4, <1>5, PrefixBegins
<1> HIDE DEF n, m, u, w, before
<1>7. ASSUME Begins(u, w)
      PROVE  n <= m /\ \A i \in 1 .. n - 1 : path[i] = other[i]
  <2> DEFINE G == {k \in 0 .. n - 1 : k <= m /\ \A i \in 1 .. k : path[i] = other[i]}
  <2>1. 0 \in G
    BY <1>1
  <2>2. ASSUME NEW k \in 0 .. n - 1, k <= m, \A i \in 1 .. k : path[i] = other[i]
        PROVE  k + 1 <= m
    <3>1. p[k] = q[k]
      <4>1. k \in Nat /\ k <= n /\ k <= m
        BY <1>1, <2>2
      <4> QED
        BY <1>2, <1>3, <2>2, <4>1, WrittenAlike DEF n, m
    <3>2. PICK l \in 1 .. n : l = k + 1 /\ l - 1 = k
      BY <1>1
    <3>3. p[k] \in Seq(Chars) /\ path[l] \in Seq(Characters) /\ Stands(path[l], u, Len(p[k]))
      <4>1. p[l - 1] \in Seq(Chars) /\ path[l] \in Seq(Characters)
            /\ Stands(path[l], u, Len(p[l - 1]))
        BY <1>2, TextSegment DEF n, u
      <4> QED
        BY <3>2, <4>1
    <3>4. Len(p[k]) \in Nat /\ Len(path[l]) \in Nat
      BY <3>3
    <3>5. Len(p[k]) < Len(u) /\ Len(u) <= Len(w)
      <4> DEFINE x == Len(p[k])
                 y == Len(path[l])
      <4>1. x + 1 + y <= Len(u)
        BY <3>3 DEF Stands
      <4>2. Len(u) <= Len(w)
        BY <1>7 DEF Begins
      <4>3. x \in Nat /\ y \in Nat /\ Len(u) \in Nat
        BY <1>4, <3>4
      <4> HIDE DEF x, y
      <4>4. x < Len(u)
        BY <4>1, <4>3
      <4> QED
        BY <4>2, <4>4 DEF x
    <3>6. k # m
      <4>1. SUFFICES ASSUME k = m PROVE FALSE
        OBVIOUS
      <4>2. w = p[k]
        BY <1>3, <3>1, <4>1 DEF IsWritten, w, m
      <4>3. Len(w) = Len(p[k])
        BY <4>2
      <4> QED
        BY <1>4, <3>4, <3>5, <4>3
    <3> QED
      BY <1>1, <2>2, <3>6
  <2>3. \A k \in 0 .. n - 1 : k # n - 1 /\ k \in G => k + 1 \in G
    <3> SUFFICES ASSUME NEW k \in 0 .. n - 1, k # n - 1, k \in G
                 PROVE  k + 1 \in G
      OBVIOUS
    <3>1. k + 1 <= m
      BY <2>2
    <3>2. PICK l \in 1 .. n - 1 : l = k + 1 /\ l - 1 = k
      BY <1>1
    <3>3. l \in 1 .. n /\ l \in 1 .. m /\ l + 1 \in 1 .. n /\ l + 1 - 1 = l
      BY <1>1, <3>1, <3>2
    <3> DEFINE a == Len(p[k])
    <3>4. path[l] = other[l]
      <4>1. p[k] = q[k]
        <5>1. k \in Nat /\ k <= n /\ k <= m /\ \A i \in 1 .. k : path[i] = other[i]
          BY <1>1
        <5> QED
          BY <1>2, <1>3, <5>1, WrittenAlike DEF n, m
      <4> HIDE DEF G
      <4>2. /\ path[l] \in Seq(Characters) /\ p[l] \in Seq(Chars) /\ p[l - 1] \in Seq(Chars)
            /\ Len(p[l]) = Len(p[l - 1]) + 1 + Len(path[l])
            /\ Stands(path[l], u, Len(p[l - 1])) /\ Ends(path[l], u, Len(p[l - 1]))
        BY <1>2, <3>3, TextSegment, SegmentEnds DEF n, u
      <4>3. /\ Stands(path[l], u, a) /\ Ends(path[l], u, a)
            /\ a \in Nat /\ Len(p[l]) = a + 1 + Len(path[l])
        BY <3>2, <4>2
      <4>4. Len(u) > a + 1 + Len(path[l])
        <5>1. PICK r \in 1 .. n : r - 1 = l
          BY <3>3
        <5>2. Stands(path[r], u, Len(p[r - 1])) /\ path[r] \in Seq(Characters)
          BY <1>2, TextSegment DEF n, u
        <5> DEFINE x == Len(p[l])
                   y == Len(path[r])
        <5>3. x + 1 + y <= Len(u)
          BY <5>1, <5>2 DEF Stands
        <5>4. x \in Nat /\ y \in Nat /\ Len(u) \in Nat
          <6>1. Len(u) \in Nat
            BY <1>4
          <6>2. x \in Nat
            <7>1. p[l] \in Seq(Chars)
              BY <4>2
            <7> QED
              BY <7>1
          <6>3. y \in Nat
            BY <5>2
          <6> QED
            BY <6>1, <6>2, <6>3
        <5>5. x = a + 1 + Len(path[l])
          BY <4>3
        <5> HIDE DEF x, y
        <5>6. Len(u) > x
          BY <5>3, <5>4
        <5> QED
          BY <5>5, <5>6
      <4>5. /\ other[l] \in Seq(Characters)
            /\ Stands(other[l], w, Len(q[l - 1])) /\ Ends(other[l], w, Len(q[l - 1]))
        BY <1>3, <3>3, TextSegment, SegmentEnds DEF m, w
      <4>6. Stands(other[l], w, a) /\ Ends(other[l], w, a)
        BY <3>2, <4>1, <4>5
      <4> HIDE DEF a
      <4> QED
        BY <1>4, <1>5, <1>7, <4>2, <4>3, <4>4, <4>5, <4>6, SameSegment
    <3>5. \A i \in 1 .. k + 1 : path[i] = other[i]
      <4> SUFFICES ASSUME NEW i \in 1 .. k + 1
                   PROVE  path[i] = other[i]
        OBVIOUS
      <4>1. i \in 1 .. k \/ i = l
        BY <1>1, <3>2
      <4> QED
        BY <3>4, <4>1
    <3> QED
      BY <1>1, <3>1, <3>2, <3>5
  <2>4. 0 .. n - 1 \subseteq G
    <3>1. n - 1 \in Nat
      BY <1>1
    <3> HIDE DEF G
    <3> QED
      BY <2>1, <2>3, <3>1, UpTo
  <2>5. n - 1 \in G
    <3>1. n - 1 \in 0 .. n - 1
      BY <1>1
    <3> HIDE DEF G
    <3> QED
      BY <2>4, <3>1
  <2>6. n - 1 \in 0 .. n - 1 /\ n - 1 <= m /\ \A i \in 1 .. n - 1 : path[i] = other[i]
    BY <2>5
  <2>7. n - 1 + 1 <= m
    BY <2>2, <2>6
  <2> QED
    BY <1>1, <2>6, <2>7
<1>8. ASSUME n <= m, \A i \in 1 .. n - 1 : path[i] = other[i]
      PROVE  Begins(u, w)
  <2>1. n - 1 \in Nat /\ n - 1 <= n /\ n - 1 <= m /\ n - 1 \in 0 .. m /\ n - 1 \in 0 .. n
        /\ n \in 1 .. m
    BY <1>1, <1>8
  <2>2. p[n - 1] = q[n - 1]
    <3>1. PICK k \in Nat : k = n - 1
      BY <2>1
    <3>2. k <= n /\ k <= m /\ \A i \in 1 .. k : path[i] = other[i]
      BY <1>8, <2>1, <3>1
    <3>3. p[k] = q[k]
      BY <1>2, <1>3, <3>2, WrittenAlike DEF n, m
    <3> QED
      BY <3>1, <3>3
  <2>3. Begins(q[n - 1], w) /\ Begins(p[n - 1], u)
    BY <1>2, <1>5, <2>1, TextBegins DEF n, u
  <2>4. Stands(other[n], w, Len(q[n - 1])) /\ other[n] \in Seq(Characters)
    BY <1>3, <2>1, TextSegment DEF m, w
  <2>5. before + 1 <= Len(w) /\ w[before + 1] = "/"
    <3>1. Stands(other[n], w, before)
      BY <2>2, <2>4 DEF before
    <3>2. Len(other[n]) \in Nat /\ Len(w) \in Nat
      BY <1>5, <2>4
    <3> DEFINE y == Len(other[n])
    <3>3. before + 1 + y <= Len(w) /\ w[before + 1] = "/"
      BY <3>1 DEF Stands
    <3>4. y \in Nat
      BY <3>2
    <3> HIDE DEF y
    <3> QED
      BY <1>4, <3>2, <3>3, <3>4
  <2>6. ASSUME NEW j \in 1 .. before + 1
        PROVE  w[j] = u[j]
    <3>1. CASE j = before + 1
      BY <1>4, <2>5, <3>1
    <3>2. CASE j # before + 1
      <4>1. j \in 1 .. before
        BY <1>4, <3>2
      <4>2. u[j] = p[n - 1][j] /\ w[j] = q[n - 1][j]
        BY <2>2, <2>3, <4>1 DEF Begins, before
      <4> QED
        BY <2>2, <4>2
    <3> QED
      BY <3>1, <3>2
  <2> QED
    BY <1>4, <2>5, <2>6 DEF Begins
<1> QED
  BY <1>6, <1>7, <1>8 DEF n, m, u, w

Paths == Seq(Seq(Characters)) \ {<<>>}

\* What Append gives.
LEMMA Appended ==
    ASSUME NEW S, NEW d \in Seq(S), NEW s \in S
    PROVE  Append(d, s) \in Seq(S) /\ Append(d, s) # <<>>
<1>1. Append(d, s) \in Seq(S) /\ Len(Append(d, s)) = Len(d) + 1 /\ Len(d) \in Nat
  OBVIOUS
<1>2. Len(Append(d, s)) # 0
  BY <1>1
<1> QED
  BY <1>1, <1>2

LEMMA DotsDiffer == Dot # DotDot
BY DEF Dot, DotDot

\* What a segment makes of those before it.
LEMMA StepFacts ==
    ASSUME NEW done \in Seq(Seq(Characters)), NEW path \in Paths, NEW i \in 1 .. Len(path)
    PROVE  /\ Step(done, path, i) \in Seq(Seq(Characters))
           /\ i = Len(path) => Step(done, path, i) # <<>>
<1>1. path[i] \in Seq(Characters) /\ <<>> \in Seq(Characters)
  BY DEF Paths
<1> DEFINE S == Seq(Characters)
           up == IF done = <<>> THEN done ELSE Front(done)
<1> HIDE DEF S
<1>2. done \in Seq(S) /\ path[i] \in S /\ <<>> \in S
  BY <1>1 DEF S
<1>3. up \in Seq(S)
  BY <1>2 DEF Front
<1> HIDE DEF up
<1>4. \A s \in S, d \in Seq(S) : Append(d, s) \in Seq(S) /\ Append(d, s) # <<>>
  BY Appended
<1>5. Step(done, path, i) =
         CASE path[i] = Dot    -> IF i = Len(path) THEN Append(done, <<>>) ELSE done
           [] path[i] = DotDot -> IF i = Len(path) THEN Append(up, <<>>) ELSE up
           [] OTHER            -> Append(done, path[i])
  BY Zenon DEF Step, up
<1>6. CASE path[i] = Dot
  <2> DEFINE stay == IF i = Len(path) THEN Append(done, <<>>) ELSE done
  <2>1. Step(done, path, i) = stay
    <3>1. path[i] # DotDot
      BY <1>6, DotsDiffer
    <3> QED
      BY <1>5, <1>6, <3>1
  <2> QED
    BY <1>2, <1>4, <2>1 DEF S
<1>7. CASE path[i] # Dot /\ path[i] = DotDot
  <2>1. Step(done, path, i) = IF i = Len(path) THEN Append(up, <<>>) ELSE up
    BY <1>5, <1>7
  <2> QED
    BY <1>2, <1>3, <1>4, <2>1 DEF S
<1>8. CASE path[i] # Dot /\ path[i] # DotDot
  <2>1. Step(done, path, i) = Append(done, path[i])
    BY <1>5, <1>8
  <2> QED
    BY <1>2, <1>4, <2>1 DEF S
<1> QED
  BY <1>6, <1>7, <1>8

\* Paths stay paths when their dot segments are resolved.
LEMMA PathnameFacts ==
    ASSUME NEW path \in Paths
    PROVE  Pathname(path) \in Paths
<1> DEFINE n == Len(path)
           S == Seq(Seq(Characters))
           next == [k \in 1 .. n |-> [d \in S |-> Step(d, path, k)]]
           Body(f) == [i \in 0 .. n |-> IF i = 0 THEN <<>> ELSE Step(f[i - 1], path, i)]
           done == CHOOSE f : f = Body(f)
           empty == <<>>
<1>1. n \in Nat /\ n \in 1 .. n /\ empty \in S
  BY DEF Paths
<1>2. \A k \in 1 .. n : \A d \in S : Step(d, path, k) \in S /\ (k = n => Step(d, path, k) # <<>>)
  BY StepFacts
<1> HIDE DEF S, n
<1>3. next \in [1 .. n -> [S -> S]]
  BY <1>2
<1>4. PICK f : Unfolds(f, n, S, empty, next)
  <2> HIDE DEF next, empty
  <2> QED
    BY <1>1, <1>3, ByRecursion
<1>5. /\ f \in [0 .. n -> S] /\ f[0] = <<>>
      /\ \A k \in 1 .. n : f[k] = next[k][f[k - 1]]
  BY <1>4 DEF Unfolds
<1>6. ASSUME NEW k \in 1 .. n
      PROVE  f[k - 1] \in S /\ f[k] = Step(f[k - 1], path, k)
  <2>1. k - 1 \in 0 .. n
    BY <1>1
  <2> QED
    BY <1>5, <2>1
<1>7. f = Body(f)
  <2>1. \A i \in 0 .. n : f[i] = IF i = 0 THEN <<>> ELSE Step(f[i - 1], path, i)
    BY <1>1, <1>5, <1>6
  <2>2. f = [i \in 0 .. n |-> f[i]]
    BY <1>5
  <2> HIDE DEF next
  <2> QED
    BY <2>1, <2>2
<1>8. done = Body(done)
  <2> HIDE DEF Body
  <2> QED
    BY <1>7
<1>9. \A i \in 0 .. n : done[i] = IF i = 0 THEN <<>> ELSE Step(done[i - 1], path, i)
  <2> HIDE DEF done
  <2> QED
    BY <1>8
<1>10. Pathname(path) = done[n]
  BY DEF Pathname, n
<1> HIDE DEF done
<1> DEFINE G == {k \in 0 .. n : done[k] \in S}
<1>11. 0 \in G
  BY <1>1, <1>9
<1>12. \A k \in 0 .. n : k # n /\ k \in G => k + 1 \in G
  <2> SUFFICES ASSUME NEW k \in 0 .. n, k # n, k \in G
               PROVE  k + 1 \in G
    OBVIOUS
  <2>1. PICK i \in 1 .. n : i = k + 1 /\ i - 1 = k /\ i # 0 /\ i \in 0 .. n
    BY <1>1
  <2>2. done[i] = Step(done[k], path, i)
    BY <1>9, <2>1
  <2> QED
    BY <1>2, <2>1, <2>2
<1>13. 0 .. n \subseteq G
  <2> HIDE DEF G
  <2> QED
    BY <1>1, <1>11, <1>12, UpTo
<1>14. done[n] = Step(done[n - 1], path, n) /\ done[n - 1] \in S
  <2>1. n - 1 \in 0 .. n /\ n # 0 /\ n \in 0 .. n
    BY <1>1
  <2> QED
    BY <1>9, <1>13, <2>1
<1>15. Pathname(path) \in S /\ Pathname(path) # <<>>
  BY <1>1, <1>2, <1>10, <1>14
<1> QED
  BY <1>15 DEF S, Paths

\* What ends the text of a path.
LEMMA LastOfText ==
    ASSUME NEW path \in Paths
    PROVE  Text(path) \in Seq(Chars) /\ (Last(Text(path)) = "/" <=> Last(path) = <<>>)
<1> DEFINE n == Len(path)
           s == path[n]
           u == Text(path)
<1>1. n \in Nat /\ n \in 1 .. n /\ path \in Seq(Seq(Characters))
  BY DEF Paths
<1>2. PICK t : IsWritten(t, path)
  BY <1>1, WrittenExists
<1> DEFINE a == Len(t[n - 1])
           m == Len(s)
<1>3. /\ s \in Seq(Characters) /\ u \in Seq(Chars) /\ t[n - 1] \in Seq(Chars)
      /\ Len(t[n]) = a + 1 + m /\ t[n] = u /\ Stands(s, u, a)
  BY <1>1, <1>2, TextSegment
<1>4. m \in Nat /\ (s = <<>> <=> m = 0) /\ \A j \in 1 .. m : s[j] \in Characters
  BY <1>3
<1>5. a \in Nat
  BY <1>3
<1> HIDE DEF s, u, a
<1>6. /\ u[a + 1] = "/"
      /\ \A j \in 1 .. m : u[a + 1 + j] = s[j]
  BY <1>3 DEF Stands
<1> HIDE DEF m
<1>7. Len(u) = a + 1 + m
  BY <1>3
<1>8. Last(u) = u[a + 1 + m]
  BY <1>7 DEF Last
<1>9. CASE m = 0
  <2>1. a + 1 + m = a + 1
    BY <1>5, <1>9
  <2>2. Last(u) = "/" /\ s = <<>>
    BY <1>4, <1>6, <1>8, <1>9, <2>1
  <2> QED
    BY <1>3, <2>2 DEF Last, s, u, n
<1>10. CASE m # 0
  <2>1. m \in 1 .. m
    BY <1>4, <1>10
  <2>2. Last(u) = s[m] /\ s[m] \in Characters
    BY <1>4, <1>6, <1>8, <2>1
  <2>3. Last(u) # "/" /\ s # <<>>
    BY <1>4, <1>10, <2>2, CharactersAssumption
  <2> QED
    BY <1>3, <2>3 DEF Last, s, u, n
<1> QED
  BY <1>3, <1>9, <1>10 DEF u

\* A path and one more slash.
LEMMA SlashedText ==
    ASSUME NEW path \in Paths
    PROVE  Text(Append(path, <<>>)) = Append(Text(path), "/")
<1> DEFINE n == Len(path)
           more == Append(path, <<>>)
<1>1. n \in Nat /\ path \in Seq(Seq(Characters)) /\ <<>> \in Seq(Characters)
  BY DEF Paths
<1>2. more \in Seq(Seq(Characters)) /\ Len(more) = n + 1 /\ more[n + 1] = <<>>
      /\ \A i \in 1 .. n : more[i] = path[i]
  BY <1>1
<1> HIDE DEF more
<1>3. PICK t : IsWritten(t, path)
  BY <1>1, WrittenExists
<1>4. PICK u : IsWritten(u, more)
  BY <1>2, WrittenExists
<1>5. PICK k \in Nat : k = n
  BY <1>1
<1> HIDE DEF n
<1>6. k <= Len(path) /\ k <= Len(more) /\ \A i \in 1 .. k : path[i] = more[i]
  BY <1>1, <1>2, <1>5 DEF n
<1>7. t[k] = u[k]
  <2>1. path \in Seq(Seq(Characters)) /\ more \in Seq(Seq(Characters))
    BY <1>1, <1>2
  <2> QED
    BY <1>3, <1>4, <1>6, <2>1, WrittenAlike
<1>8. u[n + 1] = u[n] \o (<<"/">> \o <<>>)
  <2>1. PICK l \in 1 .. Len(more) : l = n + 1 /\ l - 1 = n
    BY <1>1, <1>2
  <2>2. u[l] = u[l - 1] \o (<<"/">> \o more[l])
    BY <1>4 DEF IsWritten
  <2> QED
    BY <1>2, <2>1, <2>2
<1>9. u[n + 1] = Text(more) /\ t[n] = Text(path)
  BY <1>2, <1>3, <1>4 DEF IsWritten, n
<1>10. Text(path) \in Seq(Chars)
  BY LastOfText
<1>11. <<"/">> \o <<>> = <<"/">>
  OBVIOUS
<1>12. Text(more) = Text(path) \o <<"/">>
  BY <1>5, <1>7, <1>8, <1>9, <1>11
<1>13. \A s \in Seq(Chars) : s \o <<"/">> = Append(s, "/")
  BY DEF Chars
<1> QED
  BY <1>10, <1>12, <1>13 DEF more

\* A rule of a prefix compares texts, which comes to comparing segments.
LEMMA MatchesIfCovers ==
    ASSUME NEW rule, rule.path \in Paths, rule.prefix \in BOOLEAN, NEW pathname \in Paths
    PROVE  MatchesPath(rule, pathname) <=> Covers(rule, pathname)
<1> DEFINE path == rule.path
           n == Len(path)
           m == Len(pathname)
           S == Seq(Characters)
           text == Text(path)
           Same(k) == \A i \in 1 .. k : path[i] = pathname[i]
<1>1. /\ path \in Seq(S) /\ pathname \in Seq(S) /\ <<>> \in S
      /\ path # <<>> /\ pathname # <<>>
      /\ n \in Nat /\ m \in Nat /\ n > 0 /\ m > 0
  BY DEF Paths
<1>2. Last(text) = "/" <=> Last(path) = <<>>
  BY LastOfText
<1>3. pathname = path <=> n = m /\ Same(n)
  <2>1. ASSUME n = m, Same(n) PROVE path = pathname
    BY <1>1, <2>1, SeqEqual
  <2> QED
    BY <2>1
<1> HIDE DEF path, text
<1>4. CASE ~rule.prefix
  BY <1>4 DEF MatchesPath, Covers, path
<1>5. CASE rule.prefix /\ Last(path) = <<>>
  <2> DEFINE base == Front(path)
  <2>1. base \in Seq(S) /\ Len(base) = n - 1 /\ \A i \in 1 .. n - 1 : base[i] = path[i]
    <3>1. base = SubSeq(path, 1, n - 1)
      BY DEF Front
    <3>2. 1 \in 1 .. n + 1 /\ n - 1 \in 0 .. n
      BY <1>1
    <3> HIDE DEF S, n, base
    <3>3. path \in Seq(S) /\ Len(path) = n /\ n \in Nat
      BY <1>1 DEF n
    <3> QED
      BY <3>1, <3>2, <3>3
  <2> HIDE DEF base
  <2>2. IsPrefix(base, pathname) <=> n - 1 <= m /\ Same(n - 1)
    <3>1. IsPrefix(base, pathname) <=> Begins(base, pathname)
      BY <1>1, <2>1, PrefixBegins
    <3> QED
      BY <1>1, <2>1, <3>1 DEF Begins
  <2>3. Covers(rule, pathname) <=> n <= m /\ Same(n - 1)
    <3>1. Covers(rule, pathname) <=> IsPrefix(base, pathname) /\ m > Len(base)
      BY <1>5 DEF Covers, base, path
    <3> QED
      <4>1. m > n - 1 <=> n <= m
        BY <1>1
      <4>2. Len(base) = n - 1
        BY <2>1
      <4> HIDE DEF Same, n, m
      <4> QED
        BY <1>1, <2>2, <3>1, <4>1, <4>2
  <2>4. MatchesPath(rule, pathname)
           <=> pathname = path \/ path = <<<<>>>> \/ IsPrefix(text, Text(pathname))
    BY <1>2, <1>5 DEF MatchesPath, path, text
  <2>5. IsPrefix(text, Text(pathname)) <=> n <= m /\ Same(n - 1)
    BY <1>1, <1>5, TextIsSegments DEF text
  <2>6. pathname = path => n <= m /\ Same(n - 1)
    BY <1>1
  <2>7. path = <<<<>>>> => n <= m /\ Same(n - 1)
    <3>1. SUFFICES ASSUME path = <<<<>>>> PROVE n <= m /\ Same(n - 1)
      OBVIOUS
    <3>2. n = 1
      BY <3>1
    <3> QED
      BY <1>1, <3>2
  <2> QED
    BY <2>3, <2>4, <2>5, <2>6, <2>7
<1>6. CASE rule.prefix /\ Last(path) # <<>>
  <2> DEFINE more == Append(path, <<>>)
  <2>1. /\ more \in Paths /\ Len(more) = n + 1 /\ more[n + 1] = <<>>
        /\ \A i \in 1 .. n : more[i] = path[i]
    <3> HIDE DEF n
    <3>1. path \in Seq(S) /\ Len(path) = n /\ n \in Nat /\ <<>> \in S
      BY <1>1 DEF n
    <3> HIDE DEF S
    <3>2. /\ more \in Seq(S) /\ Len(more) = n + 1 /\ more[n + 1] = <<>>
          /\ \A i \in 1 .. n : more[i] = path[i]
      BY <3>1
    <3>3. more # <<>>
      BY <3>1, <3>2
    <3> QED
      BY <3>2, <3>3 DEF S, Paths
  <2> HIDE DEF more
  <2>2. Text(more) = Append(text, "/")
    <3>1. path \in Paths
      BY <1>1 DEF Paths
    <3> QED
      BY <3>1, SlashedText DEF more, text
  <2>3. IsPrefix(Text(more), Text(pathname)) <=> n + 1 <= m /\ Same(n)
    <3>1. Last(more) = <<>> /\ more # <<>> /\ more \in Seq(S)
      BY <2>1 DEF Last, Paths
    <3>2. IsPrefix(Text(more), Text(pathname)) <=>
             Len(more) <= m /\ \A i \in 1 .. Len(more) - 1 : more[i] = pathname[i]
      BY <1>1, <3>1, TextIsSegments
    <3>3. Len(more) = n + 1 /\ Len(more) - 1 = n
      BY <1>1, <2>1
    <3> QED
      BY <2>1, <3>2, <3>3
  <2>4. path # <<<<>>>>
    <3>1. Last(<<<<>>>>) = <<>>
      BY DEF Last
    <3> QED
      BY <1>6, <3>1
  <2>5. MatchesPath(rule, pathname)
           <=> pathname = path \/ IsPrefix(Text(more), Text(pathname))
    BY <1>2, <1>6, <2>2, <2>4 DEF MatchesPath, path, text
  <2>6. Covers(rule, pathname) <=> IsPrefix(path, pathname)
    BY <1>6 DEF Covers, path
  <2>7. IsPrefix(path, pathname) <=> n <= m /\ Same(n)
    BY <1>1, PrefixBegins DEF Begins
  <2> HIDE DEF Same
  <2> QED
    BY <1>1, <1>3, <2>3, <2>5, <2>6, <2>7
<1> QED
  BY <1>4, <1>5, <1>6

\* What stands before a star is still a path.
LEMMA WithoutStarFacts ==
    ASSUME NEW path \in Paths
    PROVE  WithoutStar(path) \in Paths
<1> DEFINE S == Seq(Characters)
           final == Last(path)
           front == Front(path)
<1>1. path \in Seq(S) /\ path # <<>> /\ Len(path) \in Nat /\ Len(path) > 0
  BY DEF Paths
<1>2. final \in S
  BY <1>1 DEF Last
<1>3. Starred(path) => final # <<>>
  BY DEF Starred
<1> HIDE DEF final
<1>4. final # <<>> => Front(final) \in S
  BY <1>2 DEF Front
<1> HIDE DEF S
<1>5. front \in Seq(S)
  BY <1>1 DEF Front
<1> HIDE DEF front
<1>6. CASE Starred(path)
  <2>1. WithoutStar(path) = Append(front, Front(final))
    BY <1>6 DEF WithoutStar, front, final
  <2> DEFINE short == Front(final)
  <2>2. short \in S
    BY <1>3, <1>4, <1>6
  <2> HIDE DEF short
  <2>3. Append(front, short) \in Seq(S) /\ Append(front, short) # <<>>
    BY <1>5, <2>2, Appended
  <2> QED
    BY <2>1, <2>3 DEF S, short, Paths
<1>7. CASE ~Starred(path)
  BY <1>7 DEF WithoutStar
<1> QED
  BY <1>6, <1>7

\* Every rule of a process that runs has a path.
LEMMA RulePaths ==
    ASSUME NEW e \in Environments, SettingsOf(e).rules # Thrown, NEW r \in SettingsOf(e).rules
    PROVE  r.path \in Paths /\ r.prefix \in BOOLEAN
<1>1. r.prefix \in BOOLEAN
  BY RuleFacts
<1>2. CASE r.path = <<<<>>>>
  <2>1. <<<<>>>> \in Paths
    BY DEF Paths
  <2> QED
    BY <1>1, <1>2, <2>1
<1>3. ASSUME NEW x \in ListOf(e.ALLOWED_ROUTES), x.path # <<>>,
             r.path = Pathname(WithoutStar(x.path))
      PROVE  r.path \in Paths
  <2>1. x.path \in Seq(Seq(Characters))
    BY EnvironmentsAssumption DEF ListOf
  <2> QED
    BY <1>3, <2>1, WithoutStarFacts, PathnameFacts DEF Paths
<1> QED
  BY <1>1, <1>2, <1>3, RuleFacts

\* A request goes upstream only if a rule covers its path segment by segment, and
\* is not refused for its path if a rule does (matchesPath, which compares
\* characters, after the URL parser has resolved dot segments).
THEOREM RulesAreSegments == Spec => []RulesMeanSegments
<1>1. ASSUME IInv, CInv, call.pc = "sent",
             call.payload.url # Malformed, call.payload.url # Empty,
             NEW r \in settings.rules
      PROVE  MatchesPath(r, Pathname(call.payload.url.path))
                <=> Covers(r, Pathname(call.payload.url.path))
  <2>1. call # Idle
    BY <1>1 DEF Idle
  <2>2. IsUrl(call.payload.url)
    BY <1>1, <2>1 DEF CInv, CallOK
  <2>3. Pathname(call.payload.url.path) \in Paths
    BY <2>2, PathnameFacts DEF IsUrl, Paths
  <2>4. env \in Environments /\ settings = SettingsOf(env) /\ Usable(SettingsOf(env))
    BY <1>1, <2>1 DEF IInv, CInv, ProcessOK
  <2>5. SettingsOf(env).rules # Thrown
    BY <2>4 DEF Usable, SettingsOf
  <2>6. r.path \in Paths /\ r.prefix \in BOOLEAN
    BY <1>1, <2>4, <2>5, RulePaths
  <2> QED
    BY <2>3, <2>6, MatchesIfCovers
<1>2. IInv /\ CInv => RulesMeanSegments
  BY <1>1, Zenon DEF RulesMeanSegments, Allowed
<1> QED
  BY <1>2, CInvAlways, PTL

-----------------------------------------------------------------------------
(* What is sent keeps the limits.                                          *)

\* A set of bounded natural numbers has a greatest one.
LEMMA GreatestNatural ==
    ASSUME NEW n \in Nat, NEW T \in SUBSET (1 .. n), T # {}
    PROVE  \E x \in T : \A y \in T : y <= x
<1> DEFINE U == {n - k : k \in T}
<1>1. U \in SUBSET Nat /\ U # {}
  <2>1. \A k \in T : k \in 1 .. n
    OBVIOUS
  <2>2. \A k \in T : n - k \in Nat
    BY <2>1
  <2> QED
    BY <2>2
<1>2. PICK u \in U : \A v \in U : u <= v
  <2> HIDE DEF U
  <2> QED
    BY <1>1, LeastNatural
<1>3. PICK x \in T : u = n - x
  BY <1>2
<1>4. \A y \in T : y <= x
  <2> TAKE y \in T
  <2>1. n - y \in U
    OBVIOUS
  <2> HIDE DEF U
  <2>2. n - x <= n - y
    BY <1>2, <1>3, <2>1
  <2> QED
    BY <2>2
<1> QED
  BY <1>4

\* Of some pairs of a payload's headers one is the last.
LEMMA LastPlaceExists ==
    ASSUME NEW p, IsPayload(p), NEW S \in SUBSET Places(p.header), S # {}
    PROVE  \E x \in S : \A y \in S : ~Before(x, y)
<1> DEFINE entries == p.header.entries
           firsts == {x[1] : x \in S}
<1>1. Len(entries) \in Nat /\ DOMAIN entries = 1 .. Len(entries)
  <2>1. entries \in Seq({entries[i] : i \in DOMAIN entries})
    BY DEF IsPayload
  <2> HIDE DEF entries
  <2> QED
    BY <2>1
<1>2. ASSUME NEW x \in S
      PROVE  /\ x[1] \in DOMAIN entries /\ x[2] \in DOMAIN EntryPairs(entries[x[1]])
             /\ x = <<x[1], x[2]>>
  BY DEF Places
<1>3. ASSUME NEW i \in DOMAIN entries
      PROVE  \E n \in Nat : DOMAIN EntryPairs(entries[i]) = 1 .. n
  <2>1. CASE entries[i].kind = "pair"
    <3>1. EntryPairs(entries[i]) = <<[key |-> entries[i].key, value |-> entries[i].value]>>
      BY <2>1 DEF EntryPairs
    <3>2. DOMAIN EntryPairs(entries[i]) = 1 .. 1
      BY <3>1
    <3> QED
      BY <3>2
  <2>2. CASE entries[i].kind = "map"
    <3> DEFINE fields == entries[i].fields
    <3>1. EntryPairs(entries[i]) = fields
      BY <2>2 DEF EntryPairs
    <3>2. fields \in Seq({fields[j] : j \in DOMAIN fields})
      BY <1>3, <2>2 DEF IsPayload
    <3> HIDE DEF fields
    <3>3. Len(fields) \in Nat /\ DOMAIN fields = 1 .. Len(fields)
      BY <3>2
    <3> QED
      BY <3>1, <3>3
  <2>3. CASE entries[i].kind \notin {"pair", "map"}
    <3>1. EntryPairs(entries[i]) = <<>>
      BY <2>3 DEF EntryPairs
    <3>2. DOMAIN EntryPairs(entries[i]) = 1 .. 0
      BY <3>1
    <3> QED
      BY <3>2
  <2> QED
    BY <2>1, <2>2, <2>3
<1> HIDE DEF entries
<1>4. PICK a \in firsts : \A b \in firsts : b <= a
  <2>1. firsts \in SUBSET (1 .. Len(entries)) /\ firsts # {}
    BY <1>1, <1>2
  <2> HIDE DEF firsts
  <2> QED
    BY <1>1, <2>1, GreatestNatural
<1> DEFINE seconds == {x[2] : x \in {y \in S : y[1] = a}}
<1>5. PICK c \in seconds : \A d \in seconds : d <= c
  <2>1. a \in DOMAIN entries
    BY <1>2, <1>4
  <2>2. PICK n \in Nat : DOMAIN EntryPairs(entries[a]) = 1 .. n
    BY <1>3, <2>1
  <2>3. seconds \in SUBSET (1 .. n) /\ seconds # {}
    BY <1>2, <1>4, <2>2
  <2> HIDE DEF seconds
  <2> QED
    BY <2>2, <2>3, GreatestNatural
<1>6. PICK x \in S : x[1] = a /\ x[2] = c
  BY <1>5
<1>7. ASSUME NEW y \in S, Before(x, y)
      PROVE  FALSE
  <2>1. y[1] \in firsts /\ (y[1] = a => y[2] \in seconds)
    BY <1>7
  <2>2. y[1] <= a /\ (y[1] = a => y[2] <= c)
    BY <1>4, <1>5, <2>1
  <2>3. x[1] < y[1] \/ (x[1] = y[1] /\ x[2] < y[2])
    BY <1>7, Zenon DEF Before
  <2>4. y[1] \in Nat /\ a \in Nat
    BY <1>1, <1>2, <1>6
  <2>5. y[1] = a => y[2] \in Nat /\ c \in Nat
    BY <1>2, <1>3, <1>6
  <2> QED
    BY <1>6, <2>2, <2>3, <2>4, <2>5
<1> QED
  BY <1>7

\* A header that is sent has the value of a pair with its name.
LEMMA SentFromPair ==
    ASSUME NEW p, IsPayload(p), NormalizeHeaders(p.header) # Thrown,
           NEW key \in DOMAIN NormalizeHeaders(p.header)
    PROVE  \E x \in Places(p.header) :
              /\ Pairs(p.header)[x].key = key
              /\ NormalizeHeaders(p.header)[key] = Pairs(p.header)[x].value
<1> DEFINE pairs == Pairs(p.header)
           banned == BlockedHeaders \cup ForwardedFamily \cup Nominated(pairs)
           kept == {i \in DOMAIN pairs : pairs[i].key.word \notin banned}
           Last1(k) == CHOOSE i \in kept :
                        /\ pairs[i].key = k
                        /\ \A j \in kept : pairs[j].key = k => ~Before(i, j)
<1>1. NormalizeHeaders(p.header) =
         [k \in {pairs[i].key : i \in kept} |-> pairs[Last1(k)].value]
  BY Zenon DEF NormalizeHeaders
<1>2. DOMAIN pairs = Places(p.header)
  BY DEF Pairs
<1> HIDE DEF pairs, banned
<1> DEFINE S == {i \in kept : pairs[i].key = key}
<1>3. S \in SUBSET Places(p.header) /\ S # {}
  <2>1. key \in {pairs[i].key : i \in kept}
    BY <1>1, Zenon
  <2> QED
    BY <1>2, <2>1
<1>4. \E x \in S : \A y \in S : ~Before(x, y)
  <2> HIDE DEF S
  <2> QED
    BY <1>3, LastPlaceExists
<1>5. \E i \in kept : pairs[i].key = key /\ \A j \in kept : pairs[j].key = key => ~Before(i, j)
  BY <1>4
<1>6. Last1(key) \in kept /\ pairs[Last1(key)].key = key
  <2> HIDE DEF kept
  <2> QED
    BY <1>5, Zenon
<1>7. NormalizeHeaders(p.header)[key] = pairs[Last1(key)].value
  BY <1>1, Zenon
<1> HIDE DEF Last1
<1> QED
  BY <1>2, <1>6, <1>7, Zenon DEF pairs

\* parsePayload has looked at the pair, but for the name of a lone object's pair.
LEMMA PairChecked ==
    ASSUME NEW p, IsPayload(p), HeaderFits(p.header), NEW x \in Places(p.header)
    PROVE  LET pair == Pairs(p.header)[x]
           IN  /\ pair.value.length <= MaxValue
               /\ \/ pair.key.length <= MaxName
                  \/ p.header.shape = "object" /\ p.header.entries[1].kind = "pair"
<1> DEFINE h == p.header
           entry == h.entries[x[1]]
           pair == Pairs(h)[x]
<1>1. /\ x[1] \in DOMAIN h.entries /\ x[2] \in DOMAIN EntryPairs(entry)
      /\ pair = EntryPairs(entry)[x[2]]
  BY DEF Places, Pairs
<1>0. h.shape \in {"array", "object"}
  <2>1. h.entries # <<>>
    BY <1>1
  <2> QED
    BY <2>1 DEF IsPayload
<1>2. CASE entry.kind = "pair"
  <2>1. EntryPairs(entry) = <<[key |-> entry.key, value |-> entry.value]>>
    BY <1>2 DEF EntryPairs
  <2>2. pair.key = entry.key /\ pair.value = entry.value
    BY <1>1, <2>1
  <2>3. CASE h.shape = "array"
    <3>1. ArrayEntryFits(entry)
      BY <1>1, <2>3 DEF HeaderFits
    <3>2. EntryFits(entry.key, entry.value)
      BY <1>2, <3>1 DEF ArrayEntryFits
    <3> QED
      BY <2>2, <3>2 DEF EntryFits
  <2>4. CASE h.shape = "object"
    <3>1. x[1] = 1
      BY <1>1, <2>4 DEF IsPayload
    <3>2. MapFits(AsFields(entry))
      BY <2>4, <3>1 DEF HeaderFits
    <3> DEFINE fields == <<[key |-> [word |-> "key", caps |-> FALSE, length |-> 1], value |-> entry.key],
                           [key |-> [word |-> "value", caps |-> FALSE, length |-> 1], value |-> entry.value]>>
    <3>3. AsFields(entry) = fields
      BY <1>2, Zenon DEF AsFields
    <3>4. 2 \in DOMAIN fields /\ fields[2].value = entry.value
      OBVIOUS
    <3> HIDE DEF fields
    <3>5. EntryFits(fields[2].key, entry.value)
      BY <3>2, <3>3, <3>4 DEF MapFits
    <3> QED
      BY <1>2, <2>2, <2>4, <3>1, <3>5 DEF EntryFits
  <2> QED
    BY <1>0, <2>3, <2>4
<1>3. CASE entry.kind = "map"
  <2>1. EntryPairs(entry) = entry.fields
    BY <1>3 DEF EntryPairs
  <2>2. MapFits(entry.fields)
    <3>1. CASE h.shape = "array"
      BY <1>1, <1>3, <3>1 DEF HeaderFits, ArrayEntryFits
    <3>2. CASE h.shape = "object"
      <4>1. x[1] = 1
        BY <1>1, <3>2 DEF IsPayload
      <4> QED
        BY <1>3, <3>2, <4>1 DEF HeaderFits, AsFields
    <3> QED
      BY <1>0, <3>1, <3>2
  <2> QED
    BY <1>1, <2>1, <2>2 DEF MapFits, EntryFits
<1>4. CASE entry.kind \notin {"pair", "map"}
  <2>1. EntryPairs(entry) = <<>>
    BY <1>4 DEF EntryPairs
  <2> QED
    BY <1>1, <2>1
<1> QED
  BY <1>2, <1>3, <1>4

\* The request that is made of a payload keeps the limits that it was checked for.
LEMMA SentFits ==
    ASSUME NEW p, IsPayload(p), PayloadFits(p), NEW rules, NEW allowHttp,
           Forward(p, rules, allowHttp) # Thrown
    PROVE  LET r == Forward(p, rules, allowHttp)
               h == p.header
           IN  /\ \A k \in DOMAIN r.headers :
                     /\ r.headers[k].length <= MaxValue
                     /\ k.length <= MaxName \/ (h.shape = "object" /\ h.entries[1].kind = "pair")
               /\ r.body.kind = "value" \/ r.body.parses => r.body.depth <= MaxDepth
               /\ ParametersFit(r.params)
<1> DEFINE r == Forward(p, rules, allowHttp)
<1>1. /\ NormalizeHeaders(p.header) # Thrown /\ RequestParams(p) # Thrown
      /\ r.headers = NormalizeHeaders(p.header) /\ r.body = RequestBody(p)
      /\ r.params = RequestParams(p)
  BY DEF Forward
<1>2. ASSUME NEW k \in DOMAIN r.headers
      PROVE  /\ r.headers[k].length <= MaxValue
             /\ k.length <= MaxName \/ (p.header.shape = "object" /\ p.header.entries[1].kind = "pair")
  <2>1. PICK x \in Places(p.header) :
           Pairs(p.header)[x].key = k /\ r.headers[k] = Pairs(p.header)[x].value
    <3> HIDE DEF r
    <3> QED
      BY <1>1, <1>2, SentFromPair
  <2> QED
    BY <2>1, PairChecked DEF PayloadFits
<1>3. r.body.kind = "value" \/ r.body.parses => r.body.depth <= MaxDepth
  <2>1. CASE RequestBody(p) = NoBody
    BY <1>1, <2>1 DEF NoBody
  <2>2. CASE RequestBody(p) # NoBody
    <3>1. RequestBody(p) = p.body /\ p.body.kind \in {"text", "value"}
      BY <2>2 DEF RequestBody, IsPayload
    <3>2. BodyFits(p.body)
      BY DEF PayloadFits
    <3> HIDE DEF r
    <3> QED
      BY <1>1, <3>1, <3>2 DEF BodyFits, DepthFits
  <2> QED
    BY <2>1, <2>2
<1>4. ParametersFit(r.params)
  <2>1. CASE p.parameter.kind = "none"
    <3>1. r.params = <<>>
      BY <1>1, <2>1 DEF RequestParams
    <3>2. ParametersFit(<<>>)
      BY LimitsAssumption DEF ParametersFit
    <3> QED
      BY <3>1, <3>2
  <2>2. CASE p.parameter.kind # "none"
    BY <1>1, <2>2, Zenon DEF RequestParams
  <2> QED
    BY <2>1, <2>2
<1> HIDE DEF r
<1> QED
  BY <1>2, <1>3, <1>4 DEF r

\* Headers, body and parameters that go upstream keep the limits of parsePayload,
\* although forward takes the shapes apart again and parses texts only then.
THEOREM SentIsChecked == Spec => []SentAsChecked
<1>1. ASSUME CInv, IsSent
      PROVE  /\ IsPayload(call.payload) /\ PayloadFits(call.payload)
             /\ ToSend # Thrown /\ call.request = ToSend
  BY <1>1 DEF CInv, CallOK, SentOK, IsSent, Idle
<1>2. CInv => SentAsChecked
  <2> SUFFICES ASSUME CInv, IsSent
               PROVE  LET r == call.request
                          h == call.payload.header
                      IN  /\ \A k \in DOMAIN r.headers :
                                /\ r.headers[k].length <= MaxValue
                                /\ \/ k.length <= MaxName
                                   \/ h.shape = "object" /\ h.entries[1].kind = "pair"
                          /\ r.body.kind = "value" \/ r.body.parses => r.body.depth <= MaxDepth
                          /\ ParametersFit(r.params)
    BY DEF SentAsChecked
  <2> DEFINE p == call.payload
             rules == settings.rules
             allowHttp == settings.allowHttp
  <2>1. /\ IsPayload(p) /\ PayloadFits(p)
        /\ Forward(p, rules, allowHttp) # Thrown
        /\ call.request = Forward(p, rules, allowHttp)
    BY <1>1 DEF ToSend
  <2> HIDE DEF rules, allowHttp
  <2> QED
    BY <2>1, SentFits
<1> QED
  BY <1>2, CInvAlways, PTL

-----------------------------------------------------------------------------
(* The limiter's counters.                                                 *)

\* Whatever address of its network a client calls from, and however that is
\* written, its calls are counted together (clientIpKey), and with nobody else's.
THEOREM CountedTogether == Spec => []OneCounterPerNetwork
<1>1. CInv => OneCounterPerNetwork
  BY DEF CInv, CountersOK, OneCounterPerNetwork
<1> QED
  BY <1>1, CInvAlways, PTL

-----------------------------------------------------------------------------
(* Empty settings.                                                         *)

\* What is left of a raw value when an empty one counts as unset.
Kept(raw) == IF raw = Empty THEN Unset ELSE raw

\* A fallback with || does not tell an empty value from an unset one.
LEMMA KeptReads ==
    ASSUME NEW raw, NEW alias
    PROVE  /\ Kept(raw) \in Blank <=> raw \in Blank
           /\ raw \notin Blank => Kept(raw) = raw
           /\ OrElse(Kept(raw), Kept(alias)) = Kept(OrElse(raw, alias))
BY DEF Kept, Blank, OrElse

\* Nor does any helper.
LEMMA KeptHelpers ==
    ASSUME NEW raw, NEW fallback, NEW allowed
    PROVE  /\ PositiveInteger(Kept(raw), fallback) = PositiveInteger(raw, fallback)
           /\ StrictBoolean(Kept(raw), fallback) = StrictBoolean(raw, fallback)
           /\ EnumValue(Kept(raw), allowed, fallback) = EnumValue(raw, allowed, fallback)
           /\ Trim(Kept(raw)) = Trim(raw)
           /\ HexSet(Kept(raw)) = HexSet(raw)
           /\ ListOf(Kept(raw)) = ListOf(raw)
<1>1. CASE raw \in Blank
  BY <1>1, KeptReads DEF PositiveInteger, StrictBoolean, EnumValue, Trim, HexSet, ListOf
<1>2. CASE raw \notin Blank
  BY <1>2, KeptReads, Zenon
<1> QED
  BY <1>1, <1>2

\* A fallback reads the same of either.
LEMMA KeptFallback ==
    ASSUME NEW raw, NEW alias
    PROVE  /\ Trim(OrElse(Kept(raw), Kept(alias))) = Trim(OrElse(raw, alias))
           /\ HexSet(OrElse(Kept(raw), Kept(alias))) = HexSet(OrElse(raw, alias))
<1> DEFINE read == OrElse(raw, alias)
<1>1. OrElse(Kept(raw), Kept(alias)) = Kept(read)
  BY KeptReads
<1> HIDE DEF read
<1>2. Trim(Kept(read)) = Trim(read) /\ HexSet(Kept(read)) = HexSet(read)
  BY KeptHelpers, Zenon
<1> QED
  BY <1>1, <1>2 DEF read

\* Without its empty values an environment has the rest as it was.
LEMMA EmptiedReads ==
    ASSUME NEW e \in Environments, NEW name \in Names
    PROVE  Emptied(e)[name] = Kept(e[name])
BY EnvironmentsAssumption DEF Emptied, Kept

\* The policy does not tell an empty setting from one that is not there.
LEMMA EmptiedPolicy ==
    ASSUME NEW e \in Environments
    PROVE  SafePolicyFromConfig(Emptied(e)) = SafePolicyFromConfig(e)
<1> DEFINE m == Emptied(e)
<1>1. SoftwareAllowed(m) = SoftwareAllowed(e)
  <2>1. m.ATTESTATION_ALLOW_SOFTWARE = Kept(e.ATTESTATION_ALLOW_SOFTWARE)
        /\ m.AEGIS_EMULATOR_MODE = Kept(e.AEGIS_EMULATOR_MODE)
    BY EmptiedReads DEF Names
  <2> HIDE DEF m
  <2> QED
    BY <2>1, KeptHelpers, Zenon DEF SoftwareAllowed
<1>2. PackageName(m) = PackageName(e)
  <2>1. m.ATTESTATION_PACKAGE_NAME = Kept(e.ATTESTATION_PACKAGE_NAME)
        /\ m.AEGIS_PACKAGE_NAME = Kept(e.AEGIS_PACKAGE_NAME)
    BY EmptiedReads DEF Names
  <2> HIDE DEF m
  <2> QED
    BY <2>1, KeptFallback, Zenon DEF PackageName
<1>3. Digests(m) = Digests(e)
  <2>1. m.ATTESTATION_SIGNING_CERT_SHA256 = Kept(e.ATTESTATION_SIGNING_CERT_SHA256)
        /\ m.AEGIS_SIGNING_CERT_SHA256 = Kept(e.AEGIS_SIGNING_CERT_SHA256)
    BY EmptiedReads DEF Names
  <2> HIDE DEF m
  <2> QED
    BY <2>1, KeptFallback, Zenon DEF Digests
<1>4. SerialSet(OrElse(m.ATTESTATION_REVOKED_SERIALS, m.AEGIS_REVOKED_SERIALS))
         = SerialSet(OrElse(e.ATTESTATION_REVOKED_SERIALS, e.AEGIS_REVOKED_SERIALS))
  <2>1. m.ATTESTATION_REVOKED_SERIALS = Kept(e.ATTESTATION_REVOKED_SERIALS)
        /\ m.AEGIS_REVOKED_SERIALS = Kept(e.AEGIS_REVOKED_SERIALS)
    BY EmptiedReads DEF Names
  <2> HIDE DEF m
  <2>2. HexSet(OrElse(m.ATTESTATION_REVOKED_SERIALS, m.AEGIS_REVOKED_SERIALS))
           = HexSet(OrElse(e.ATTESTATION_REVOKED_SERIALS, e.AEGIS_REVOKED_SERIALS))
    BY <2>1, KeptFallback, Zenon
  <2> QED
    BY <2>2, Zenon DEF SerialSet
<1>5. InProduction(m) <=> InProduction(e)
  <2>1. m.NODE_ENV = Kept(e.NODE_ENV)
    BY EmptiedReads DEF Names
  <2> HIDE DEF m
  <2> QED
    BY <2>1, ValuesAssumption DEF InProduction, Kept, Blank
<1> HIDE DEF m
<1>6. PolicyFails(m) <=> PolicyFails(e)
  BY <1>1, <1>2, <1>3, <1>5, Zenon DEF PolicyFails
<1>7. PolicyOf(m) = PolicyOf(e)
  BY <1>1, <1>2, <1>3, <1>4, Zenon DEF PolicyOf
<1>8. SafePolicyFromConfig(m) = SafePolicyFromConfig(e)
  BY <1>6, <1>7, Zenon DEF SafePolicyFromConfig, PolicyFromConfig
<1> QED
  BY <1>8 DEF m

\* Nor does the choice of the store.
LEMMA EmptiedStore ==
    ASSUME NEW e \in Environments
    PROVE  SafeKvStoreFromConfig(Emptied(e)) = SafeKvStoreFromConfig(e)
<1> DEFINE m == Emptied(e)
<1>1. /\ m.ATTESTATION_KV_REST_URL = Kept(e.ATTESTATION_KV_REST_URL)
      /\ m.AEGIS_KV_REST_URL = Kept(e.AEGIS_KV_REST_URL)
      /\ m.ATTESTATION_KV_REST_TOKEN = Kept(e.ATTESTATION_KV_REST_TOKEN)
      /\ m.AEGIS_KV_REST_TOKEN = Kept(e.AEGIS_KV_REST_TOKEN)
  BY EmptiedReads DEF Names
<1> HIDE DEF m
<1>2. /\ Trim(OrElse(m.ATTESTATION_KV_REST_URL, m.AEGIS_KV_REST_URL))
            = Trim(OrElse(e.ATTESTATION_KV_REST_URL, e.AEGIS_KV_REST_URL))
      /\ Trim(OrElse(m.ATTESTATION_KV_REST_TOKEN, m.AEGIS_KV_REST_TOKEN))
            = Trim(OrElse(e.ATTESTATION_KV_REST_TOKEN, e.AEGIS_KV_REST_TOKEN))
  BY <1>1, KeptFallback, Zenon
<1>3. SafeKvStoreFromConfig(m) = SafeKvStoreFromConfig(e)
  BY <1>2, Zenon DEF SafeKvStoreFromConfig
<1> QED
  BY <1>3 DEF m

\* The device policy does: an empty value hides its alias, and so is strict.
LEMMA EmptiedDevice ==
    ASSUME NEW e \in Environments
    PROVE  DevicePolicyFromConfig(e) \in {DevicePolicyFromConfig(Emptied(e)), "required"}
<1> DEFINE m == Emptied(e)
           raw == e.ATTESTATION_DEVICE_POLICY
           alias == e.AEGIS_DEVICE_POLICY
           Read(text) == EnumValue(text, {"required", "report"}, "required")
<1>1. m.ATTESTATION_DEVICE_POLICY = Kept(raw) /\ m.AEGIS_DEVICE_POLICY = Kept(alias)
  BY EmptiedReads DEF Names
<1>2. DevicePolicyFromConfig(m) = Read(IfUnsetThen(Kept(raw), Kept(alias)))
  BY <1>1, Zenon DEF DevicePolicyFromConfig
<1>3. DevicePolicyFromConfig(e) = Read(IfUnsetThen(raw, alias))
  BY Zenon DEF DevicePolicyFromConfig
<1>4. CASE raw = Unset
  <2>1. IfUnsetThen(raw, alias) = alias /\ IfUnsetThen(Kept(raw), Kept(alias)) = Kept(alias)
    BY <1>4 DEF IfUnsetThen, Kept
  <2> QED
    BY <1>2, <1>3, <2>1, KeptHelpers, Zenon
<1>5. CASE raw # Unset /\ raw = Empty
  <2>1. IfUnsetThen(raw, alias) = Empty
    BY <1>5 DEF IfUnsetThen
  <2>2. Read(Empty) = "required"
    BY DEF EnumValue, Blank
  <2> QED
    BY <1>3, <2>1, <2>2
<1>6. CASE raw # Unset /\ raw # Empty
  <2>1. IfUnsetThen(raw, alias) = raw /\ IfUnsetThen(Kept(raw), Kept(alias)) = raw
    BY <1>6 DEF IfUnsetThen, Kept
  <2> QED
    BY <1>2, <1>3, <2>1, Zenon
<1> QED
  BY <1>4, <1>5, <1>6

\* All settings together.
LEMMA EmptiedSettings ==
    ASSUME NEW e \in Environments
    PROVE  LET s == SettingsOf(e)
               plain == SettingsOf(Emptied(e))
           IN  /\ \A f \in DOMAIN s \ {"device"} : s[f] = plain[f]
               /\ s.device \in {plain.device, "required"}
<1> DEFINE m == Emptied(e)
           s == SettingsOf(e)
           plain == SettingsOf(m)
<1>1. /\ m.ALLOWED_TARGET_HOSTS = Kept(e.ALLOWED_TARGET_HOSTS)
      /\ m.ALLOWED_ROUTES = Kept(e.ALLOWED_ROUTES)
      /\ m.ALLOW_HTTP_UPSTREAM = Kept(e.ALLOW_HTTP_UPSTREAM)
      /\ m.ENCRYPT_RESPONSE = Kept(e.ENCRYPT_RESPONSE)
      /\ m.THROTTLE_LIMIT = Kept(e.THROTTLE_LIMIT)
      /\ m.UPSTREAM_TIMEOUT_MS = Kept(e.UPSTREAM_TIMEOUT_MS)
  BY EmptiedReads DEF Names
<1>2. /\ SafePolicyFromConfig(m) = SafePolicyFromConfig(e)
      /\ SafeKvStoreFromConfig(m) = SafeKvStoreFromConfig(e)
      /\ DevicePolicyFromConfig(e) \in {DevicePolicyFromConfig(m), "required"}
  BY EmptiedPolicy, EmptiedStore, EmptiedDevice
<1> HIDE DEF m
<1>3. /\ s.rules = plain.rules /\ s.allowHttp = plain.allowHttp /\ s.encrypt = plain.encrypt
      /\ s.limit = plain.limit /\ s.timeout = plain.timeout
  BY <1>1, KeptHelpers, Zenon DEF SettingsOf
<1>4. /\ s.policy = plain.policy /\ s.store = plain.store
      /\ s.device \in {plain.device, "required"}
  BY <1>2 DEF SettingsOf
<1>5. DOMAIN s = {"rules", "allowHttp", "encrypt", "limit", "timeout", "policy", "device", "store"}
  BY DEF SettingsOf
<1> HIDE DEF s, plain
<1>6. \A f \in DOMAIN s \ {"device"} : s[f] = plain[f]
  BY <1>3, <1>4, <1>5
<1> QED
  BY <1>4, <1>6 DEF s, plain, m

\* The settings of every environment are those of the one without its empty
\* values, but for the device policy, which an empty value can make stricter.
THEOREM EmptyCountsAsUnset == Spec => []EmptyIsUnset
<1>1. IInv => EmptyIsUnset
  BY EmptiedSettings, Zenon DEF IInv, EmptyIsUnset
<1> QED
  BY <1>1, CInvAlways, PTL

-----------------------------------------------------------------------------
(* The answer reaches the application, and no other one does.              *)

\* The parts of an answer that is passed on.
LEMMA PassedFacts ==
    ASSUME NEW r \in Replies
    PROVE  /\ PassedOn(r).status = r.status /\ PassedOn(r).data = r.data
           /\ PassedOn(r).headers = SanitizeResponseHeaders(r.headers)
           /\ PassedOn(r) # Malformed
<1>1. DOMAIN r = {"status", "headers", "data"} /\ PassedOn(r) # Malformed
  BY AnswersAssumption
<1> QED
  BY <1>1 DEF PassedOn

\* Of the headers some go, and what is left is unchanged and can be read by all.
LEMMA SanitizedFacts ==
    ASSUME NEW headers
    PROVE  \A name \in DOMAIN SanitizeResponseHeaders(headers) :
              /\ name \in DOMAIN headers
              /\ SanitizeResponseHeaders(headers)[name] = headers[name]
              /\ headers[name] \in {"text", "list"}
BY DEF SanitizeResponseHeaders

\* No client takes an answer that it cannot open, or whose code is no success.
LEMMA ReceivedOnlyOpened ==
    ASSUME NEW kind \in C!Kinds, NEW answer, NEW key, NEW sealed,
           C!Received(kind, answer, key, sealed) # Failed
    PROVE  /\ C!Received(kind, answer, key, sealed) = answer.content
           /\ C!Opens(answer, key, sealed)
           /\ answer.content # Malformed
           /\ answer.code \in 200 .. 299
<1>1. CASE kind = "web"
  <2>1. C!Received(kind, answer, key, sealed) = C!WebReceived(answer, key, sealed)
    BY <1>1 DEF C!Received
  <2>2. /\ C!WebReceived(answer, key, sealed) = answer.content
        /\ C!Opens(answer, key, sealed)
        /\ C!Complete(answer.content)
        /\ answer.code \in 200 .. 299
    BY <2>1 DEF C!WebReceived
  <2> QED
    BY <2>1, <2>2, Zenon DEF C!Complete
<1>2. CASE kind = "android"
  <2>1. C!Received(kind, answer, key, sealed) = C!AndroidReceived(answer, key, sealed)
    BY <1>2 DEF C!Received
  <2>2. /\ C!AndroidReceived(answer, key, sealed) = answer.content
        /\ C!Opens(answer, key, sealed)
        /\ C!Complete(answer.content)
        /\ answer.code = 200
    BY <2>1 DEF C!AndroidReceived
  <2>3. answer.content # Malformed /\ answer.code \in 200 .. 299
    BY <2>2 DEF C!Complete
  <2> QED
    BY <2>1, <2>2, <2>3
<1>3. CASE kind \in {"ios", "flutter"}
  <2>1. C!Received(kind, answer, key, sealed) = C!IosReceived(answer, key, sealed)
    BY <1>3 DEF C!Received, C!FlutterReceived
  <2>2. /\ C!IosReceived(answer, key, sealed) = answer.content
        /\ C!Opens(answer, key, sealed)
        /\ C!Complete(answer.content)
        /\ answer.code = 200
    BY <2>1 DEF C!IosReceived
  <2>3. answer.content # Malformed /\ answer.code \in 200 .. 299
    BY <2>2 DEF C!Complete
  <2> QED
    BY <2>1, <2>2, <2>3
<1> QED
  BY <1>1, <1>2, <1>3 DEF C!Kinds

\* An answer of success that a client opens is taken by it, if its status is one
\* of HTTP and its headers are texts or lists of texts.
LEMMA ReceivedIfOpened ==
    ASSUME NEW kind \in C!Kinds, NEW answer, NEW key, NEW sealed,
           answer.code = 200, C!Opens(answer, key, sealed),
           answer.content # Malformed, answer.content.status \in 100 .. 599,
           \A name \in DOMAIN answer.content.headers :
              answer.content.headers[name] \in {"text", "list"}
    PROVE  C!Received(kind, answer, key, sealed) = answer.content
<1>1. C!Complete(answer.content) /\ answer.code \in 200 .. 299
  BY DEF C!Complete
<1>2. C!WebReceived(answer, key, sealed) = answer.content
  BY <1>1, Zenon DEF C!WebReceived
<1>3. C!AndroidReceived(answer, key, sealed) = answer.content
  BY <1>1, Zenon DEF C!AndroidReceived
<1>4. C!IosReceived(answer, key, sealed) = answer.content
  BY <1>1, Zenon DEF C!IosReceived
<1> QED
  BY <1>2, <1>3, <1>4 DEF C!Kinds, C!Received, C!FlutterReceived

\* Every answer of the gateway to a call, if it is one of success, reaches all
\* four clients alike, and is what the upstream answered to this call.
THEOREM AnswersAreDelivered == Spec => []Delivered
<1>1. ASSUME IInv, CInv, call.pc = "answered", call.reply # NoReply,
             call.answer.code = 200, call.answer \notin Foreign,
             call.answer # last \/ last.key = call.key,
             call.reply.status \in 100..599, call.sealed => settings.encrypt,
             NEW kind \in C!Kinds
      PROVE  C!Received(kind, call.answer, call.key, call.sealed) = PassedOn(call.reply)
  <2>1. call # Idle
    BY <1>1 DEF Idle
  <2>2. call.reply \in Replies
    BY <1>1, <2>1 DEF CInv, CallOK
  <2>3. settings.encrypt \in BOOLEAN
    <3>1. Usable(SettingsOf(env)) /\ settings = SettingsOf(env) /\ env \in Environments
      BY <1>1, <2>1 DEF IInv, CInv, ProcessOK
    <3> QED
      BY <3>1, UsableSettings, Zenon
  <2>4. call.answer # ErrorAnswer
    <3>1. ErrorAnswer.code = 400
      BY DEF ErrorAnswer
    <3> QED
      BY <1>1, <3>1
  <2> DEFINE content == PassedOn(call.reply)
  <2>5. /\ content # Malformed /\ content.status \in 100 .. 599
        /\ \A name \in DOMAIN content.headers : content.headers[name] \in {"text", "list"}
    BY <1>1, <2>2, PassedFacts, SanitizedFacts
  <2> HIDE DEF content
  <2>6. ASSUME call.answer.content = content, C!Opens(call.answer, call.key, call.sealed)
        PROVE  C!Received(kind, call.answer, call.key, call.sealed) = content
    BY <1>1, <2>5, <2>6, ReceivedIfOpened
  <2>7. CASE last # NoReply /\ call.answer = last
    <3>1. /\ last.encrypted = TRUE /\ last.envelope = "whole" /\ last.key = call.key
          /\ last.content = PassedOn(call.reply)
      BY <1>1, <2>1, <2>7 DEF CInv, LastOK
    <3>2. C!Opens(call.answer, call.key, call.sealed)
      BY <2>7, <3>1 DEF C!Opens
    <3> QED
      BY <2>7, <2>6, <3>1, <3>2 DEF content
  <2>8. CASE call.answer = Response(PassedOn(call.reply))
    <3>1. call.answer.content = PassedOn(call.reply)
      BY <2>8 DEF Response
    <3>2. C!Opens(call.answer, call.key, call.sealed)
      BY <1>1, <2>3, <2>8 DEF Response, C!Opens
    <3> QED
      BY <2>6, <3>1, <3>2 DEF content
  <2> QED
    BY <1>1, <2>4, <2>7, <2>8 DEF CInv, AnswerOK, content
<1>2. IInv /\ CInv => Delivered
  BY <1>1 DEF Delivered
<1> QED
  BY <1>2, CInvAlways, PTL

\* What a client makes of an answer is one of the results of a call; and if it
\* insists on a seal, it is what the upstream answered to this very call.
LEMMA ResultTells ==
    ASSUME CInv, call.pc = "answered",
           NEW result, result = C!Received(call.client, call.answer, call.key, call.sealed)
    PROVE  /\ result \in {Failed} \cup {PassedOn(r) : r \in Replies}
                            \cup ({a.content : a \in Foreign} \ {Malformed})
           /\ result # Failed /\ call.sealed => RelayOf!Tells(result, call.reply)
<1>1. call # Idle
  BY DEF Idle
<1>2. /\ call.client \in C!Kinds /\ call.sealed \in BOOLEAN
      /\ call.key \in 1 .. calls /\ call.reply \in Replies \cup {NoReply}
  BY <1>1 DEF CInv, CallOK
<1>3. calls \in Nat
  BY DEF CInv, ProcessOK
<1> SUFFICES ASSUME result # Failed
             PROVE  /\ result \in {PassedOn(r) : r \in Replies}
                                     \cup ({a.content : a \in Foreign} \ {Malformed})
                    /\ call.sealed => RelayOf!Tells(result, call.reply)
  OBVIOUS
<1>4. /\ result = call.answer.content
      /\ C!Opens(call.answer, call.key, call.sealed)
      /\ call.answer.content # Malformed
      /\ call.answer.code \in 200 .. 299
  BY <1>2, ReceivedOnlyOpened
<1>5. ASSUME call.reply # NoReply, result = PassedOn(call.reply)
      PROVE  /\ result \in {PassedOn(r) : r \in Replies}
             /\ RelayOf!Tells(result, call.reply)
  <2>1. call.reply \in Replies
    BY <1>2, <1>5
  <2> QED
    BY <1>5, <2>1, PassedFacts, SanitizedFacts DEF RelayOf!Tells
<1>6. CASE call.answer \in Foreign
  <2>1. ~call.sealed
    <3>1. call.answer.envelope = "whole" => call.answer.key = 0
      BY <1>6, AnswersAssumption
    <3>2. call.key # 0
      BY <1>2, <1>3
    <3>3. call.sealed => call.answer.envelope = "whole" /\ call.answer.key = call.key
      BY <1>4, Zenon DEF C!Opens
    <3> QED
      BY <3>1, <3>2, <3>3, Zenon
  <2> QED
    BY <1>4, <1>6, <2>1
<1>7. CASE call.answer = ErrorAnswer
  <2>1. ErrorAnswer.code = 400
    BY DEF ErrorAnswer
  <2> QED
    BY <1>4, <1>7, <2>1
<1>8. CASE last # NoReply /\ call.answer = last
  <2>1. /\ last.encrypted = TRUE /\ last.content \in {PassedOn(r) : r \in Replies}
        /\ last.key = call.key => call.reply # NoReply /\ last.content = PassedOn(call.reply)
    BY <1>1, <1>8 DEF CInv, LastOK
  <2>2. last.key = call.key
    BY <1>4, <1>8, <2>1 DEF C!Opens
  <2> QED
    BY <1>4, <1>5, <1>8, <2>1, <2>2
<1>9. CASE call.reply # NoReply /\ call.answer = Response(PassedOn(call.reply))
  <2>1. result = PassedOn(call.reply)
    BY <1>4, <1>9 DEF Response
  <2> QED
    BY <1>5, <1>9, <2>1
<1> QED
  BY <1>6, <1>7, <1>8, <1>9 DEF CInv, AnswerOK

\* The steps that leave the application's view of the call as it is.
LEMMA NoStep ==
    ASSUME call'.pc = "idle" <=> call.pc = "idle",
           call'.pc = "ended" <=> call.pc = "ended",
           call.pc # "idle" => /\ call'.sealed = call.sealed /\ call'.reply = call.reply
                               /\ call'.result = call.result
    PROVE  UNCHANGED RelayOf!vars
BY DEF RelayOf!vars

\* The call is over for the application.
LEMMA ForgetStep ==
    ASSUME call.pc # "idle", call' = Idle
    PROVE  RelayOf!Next
<1>1. call'.pc = "idle"
  BY DEF Idle
<1>2. RelayOf!Forget
  BY <1>1 DEF RelayOf!Forget, RelayOf!Init
<1> QED
  BY <1>2 DEF RelayOf!Next

\* Every step of the service is one of the abstract call, or none that shows.
LEMMA RelayStep == CInv /\ IInv /\ [Next]_vars => [RelayOf!Next]_(RelayOf!vars)
<1> SUFFICES ASSUME CInv, IInv, [Next]_vars
             PROVE  RelayOf!Next \/ UNCHANGED RelayOf!vars
  OBVIOUS
<1>1. Idle.pc = "idle" /\ (call.pc = "idle" => call = Idle) /\ env \in Environments
  BY DEF Idle, CInv, CallOK, IInv
<1>2. ASSUME call' = call
      PROVE  UNCHANGED RelayOf!vars
  BY <1>2, NoStep
<1>3. CASE Stop
  <2>1. call' = Idle
    BY <1>3 DEF Stop
  <2>2. CASE call = Idle
    BY <1>2, <2>1, <2>2
  <2>3. CASE call # Idle
    BY <1>1, <2>1, <2>3, ForgetStep
  <2> QED
    BY <2>2, <2>3
<1>4. ASSUME NEW c \in Calls(env), Begin(c)
      PROVE  RelayOf!Next
  <2>1. /\ call.pc = "idle" /\ call'.pc = "sent" /\ call'.sealed = c.sealed
        /\ call'.reply = NoReply /\ call'.result = Failed
    BY <1>1, <1>4 DEF Begin
  <2>2. c.sealed \in BOOLEAN
    BY <1>1, CallsAssumption
  <2>3. RelayOf!Begin
    BY <2>1, <2>2 DEF RelayOf!Begin
  <2> QED
    BY <2>3 DEF RelayOf!Next
<1>5. ASSUME NEW a, call.pc \in {"sent", "upstream", "replied", "answered"}, call' = Answered(a)
      PROVE  UNCHANGED RelayOf!vars
  <2>1. call # Idle
    BY <1>1, <1>5
  <2>2. /\ call'.pc = "answered" /\ call'.sealed = call.sealed /\ call'.reply = call.reply
        /\ call'.result = call.result
    BY <1>5, <2>1, AnsweredFacts DEF CInv, CallFields
  <2> QED
    BY <1>5, <2>2, NoStep
<1>6. CASE Limited \/ Refused
  BY <1>5, <1>6 DEF Limited, Refused, Arrived
<1>7. CASE Forwarded
  <2>1. call.pc = "sent" /\ call' = [call EXCEPT !.pc = "upstream", !.request = ToSend]
    BY <1>7 DEF Forwarded, Arrived
  <2>2. DOMAIN call = CallFields
    BY <1>1, <2>1 DEF CInv, CallOK
  <2>3. /\ call'.pc = "upstream" /\ call'.sealed = call.sealed /\ call'.reply = call.reply
        /\ call'.result = call.result
    BY <2>1, <2>2 DEF CallFields
  <2> QED
    BY <2>1, <2>3, NoStep
<1>8. ASSUME NEW r \in Replies, UpstreamReplies(r)
      PROVE  RelayOf!Next
  <2>1. call.pc = "upstream" /\ call' = [call EXCEPT !.pc = "replied", !.reply = r]
    BY <1>8 DEF UpstreamReplies, Proceed
  <2>2. DOMAIN call = CallFields /\ call.reply = NoReply
    BY <1>1, <2>1 DEF CInv, CallOK
  <2>3. /\ call'.pc = "replied" /\ call'.sealed = call.sealed /\ call'.reply = r
        /\ call'.result = call.result
    BY <2>1, <2>2 DEF CallFields
  <2>4. RelayOf!Handle(r)
    BY <2>1, <2>2, <2>3 DEF RelayOf!Handle
  <2> QED
    BY <2>4 DEF RelayOf!Next
<1>9. CASE UpstreamFails
  BY <1>5, <1>9 DEF UpstreamFails, Proceed
<1>10. ASSUME NEW a, Replaced(a)
       PROVE  UNCHANGED RelayOf!vars
  BY <1>5, <1>10 DEF Replaced, Proceed
<1>11. CASE Respond
  BY <1>5, <1>11 DEF Respond
<1>12. CASE Receive
  <2> DEFINE result == C!Received(call.client, call.answer, call.key, call.sealed)
  <2>1. call.pc = "answered" /\ call' = [call EXCEPT !.pc = "ended", !.result = result]
    BY <1>12 DEF Receive, Proceed
  <2>2. DOMAIN call = CallFields
    BY <1>1, <2>1 DEF CInv, CallOK
  <2>3. /\ result \in {Failed} \cup {PassedOn(r) : r \in Replies}
                         \cup ({a.content : a \in Foreign} \ {Malformed})
        /\ result # Failed /\ call.sealed => RelayOf!Tells(result, call.reply)
    BY <2>1, ResultTells
  <2> HIDE DEF result
  <2>4. /\ call'.pc = "ended" /\ call'.sealed = call.sealed /\ call'.reply = call.reply
        /\ call'.result = result
    BY <2>1, <2>2 DEF CallFields
  <2>5. RelayOf!End(result)
    BY <2>1, <2>3, <2>4 DEF RelayOf!End
  <2> QED
    BY <2>3, <2>5 DEF RelayOf!Next
<1>13. CASE Done
  BY <1>1, <1>13, ForgetStep DEF Done, Proceed
<1>14. CASE \/ Configure \/ Start \/ UNCHANGED vars
            \/ \E a \in Addresses : WindowEnds(a)
            \/ \E o \in Offers(env) : Offer(o)
  BY <1>2, <1>14 DEF Configure, Start, WindowEnds, Offer, vars
<1> QED
  BY <1>3, <1>4, <1>6, <1>7, <1>8, <1>9, <1>10, <1>11, <1>12, <1>13, <1>14 DEF Next

\* Gateway and client keep the promise of Relay: an application that insists on
\* sealed answers gets what the upstream answered to its call, or an error,
\* although answers are lost, replaced and repeated (send in clients/web).
THEOREM ImplementsTheRelay == Spec => ImplementsRelay
<1>1. Init => RelayOf!Init
  <2> SUFFICES ASSUME Init PROVE RelayOf!Init
    OBVIOUS
  <2>1. call.pc = "idle"
    BY DEF Init, Idle
  <2> QED
    BY <2>1 DEF RelayOf!Init
<1> QED
  BY <1>1, RelayStep, CInvAlways, PTL DEF Spec, ImplementsRelay, RelayOf!Spec

====
