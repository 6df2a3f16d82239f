---- MODULE FingerprintTrustProofs ----
(*****************************************************************************)
(* Proofs about FingerprintTrust for any clients, hosts and certificates:    *)
(* nothing is trusted that was not approved for its host, saves that do not  *)
(* overlap are whole, and users are not asked again.                         *)
(*****************************************************************************)
EXTENDS FingerprintTrust, TLAPS

\* What a map says was approved, as a says.
Backed(map, a) ==
    \A f \in Fingerprints : map[f] # NoHost => map[f] \in Hosts /\ f \in a[map[f]]

InSave(c) == stage[c] \in {"saving", "opened", "written"}

ApprovalInv ==
    /\ \A c \in Clients : mode[c] = "off" => stage[c] = "free"
    /\ \A c \in Clients : Backed(entries[c], approved)
    /\ Backed(file, approved)
    /\ tmp # NoTemp => Backed(tmp, approved)
    /\ \A c \in Clients : InSave(c) => about[c] \in approved[HostOf[c]]
    /\ TrustIsApproved

WholeInv ==
    ~raced =>
        /\ file = saved
        /\ \A c, d \in Clients : Saving(c) /\ Saving(d) => c = d
        /\ \A c \in Clients : Saving(c) => handle[c] = "tmp"
        /\ \A c \in Clients : stage[c] = "written" => tmp = entries[c]

\* A certificate that was asked about has a verdict, or is being asked about.
AskInv ==
    \A c \in Clients : mode[c] # "off" =>
        \A f \in asked[c] : known[c][f] # "unknown" \/ (stage[c] # "free" /\ about[c] = f)

\* While clients live one after the other, what was kept is in the file, and in
\* the client that lives, with its verdict if it is about its host.
AloneInv ==
    ~disturbed =>
        /\ ~raced
        /\ \A c, d \in Clients : mode[c] # "off" /\ mode[d] # "off" => c = d
        /\ \A f \in Fingerprints : kept[f] # NoHost => file[f] = kept[f]
        /\ \A c \in Clients : mode[c] # "off" =>
              \A f \in Fingerprints :
                  /\ kept[f] # NoHost => entries[c][f] = kept[f]
                  /\ kept[f] = HostOf[c] => known[c][f] # "unknown"
        /\ \A c \in Clients : InSave(c) => entries[c][about[c]] = HostOf[c]

Inv == TypeOK /\ ApprovalInv /\ WholeInv /\ AskInv /\ AloneInv

----
(* Helpers *)

LEMMA HostFacts == \A c \in Clients : HostOf[c] \in Hosts /\ HostOf[c] # NoHost
PROOF
  BY HostAssumption, Zenon

LEMMA NothingIsBacked ==
  ASSUME NEW a
  PROVE  Nothing \in Maps /\ Backed(Nothing, a)
PROOF
  BY Zenon DEF Nothing, Maps, Backed

LEMMA BackedGrows ==
  ASSUME NEW map, NEW a, NEW b, Backed(map, a), \A h \in Hosts : a[h] \subseteq b[h]
  PROVE  Backed(map, b)
PROOF
  BY Zenon DEF Backed

LEMMA MovedType ==
  /\ \A h \in {"none", "tmp", "file", "gone"} : Moved(h) \in {"none", "tmp", "file", "gone"}
  /\ \A h \in {"none", "tmp", "file", "gone"} : Removed(h) \in {"none", "tmp", "file", "gone"}
PROOF
  BY SMT DEF Moved, Removed

LEMMA SeededType ==
  ASSUME NEW c \in Clients, NEW map \in Maps
  PROVE  SeededFrom(c, map) \in [Fingerprints -> {"unknown", "trusted", "refused"}]
PROOF
  BY SMT DEF SeededFrom

----
(* Types *)

LEMMA TypeInit == Init => TypeOK
PROOF
<1>. SUFFICES ASSUME Init
             PROVE  TypeOK
  OBVIOUS
<1>1. Unknown \in [Fingerprints -> {"unknown", "trusted", "refused"}]
  BY SMT DEF Unknown
<1>2. /\ mode \in [Clients -> Modes \union {"off"}]
      /\ stage \in [Clients -> {"free", "asking", "saving", "opened", "written"}]
      /\ handle \in [Clients -> {"none", "tmp", "file", "gone"}]
      /\ starts \in 0 .. MaxStarts
  BY StartsAssumption, SMT DEF Init
<1>3. /\ approved \in [Hosts -> SUBSET Fingerprints]
      /\ asked \in [Clients -> SUBSET Fingerprints]
  BY Zenon DEF Init
<1>. QED  BY <1>1, <1>2, <1>3, NothingIsBacked, Zenon DEF Init, TypeOK

LEMMA TypeNext == TypeOK /\ [Next]_vars => TypeOK'
PROOF
<1>. SUFFICES ASSUME TypeOK, [Next]_vars
             PROVE  TypeOK'
  OBVIOUS
<1>. USE DEF TypeOK
<1>1. ASSUME NEW c \in Clients, Load(c) \/ LoadFails(c)
      PROVE  TypeOK'
  <2>1. PICK map \in Maps : Construct(c, map)
    BY <1>1, NothingIsBacked, Zenon DEF Load, LoadFails
  <2>2. disturbed' \in BOOLEAN
    <3>1. CASE Load(c)
      BY <3>1, SMT DEF Load
    <3>2. CASE LoadFails(c)
      BY <3>2, SMT DEF LoadFails
    <3>. QED  BY <1>1, <3>1, <3>2, Zenon
  <2>3. starts' \in 0 .. MaxStarts
    BY <2>1, StartsAssumption, SMT DEF Construct
  <2>4. PICK m \in Modes : mode' = [mode EXCEPT ![c] = m]
    BY <2>1, ModesAssumption, Zenon DEF Construct
  <2>5. mode' \in [Clients -> Modes \union {"off"}]
    BY <2>4, SMT
  <2>6. known' \in [Clients -> [Fingerprints -> {"unknown", "trusted", "refused"}]]
    BY <2>1, SeededType, SMT DEF Construct
  <2>7. entries' \in [Clients -> Maps] /\ asked' \in [Clients -> SUBSET Fingerprints]
    BY <2>1, SMT DEF Construct
  <2>. QED  BY <2>1, <2>2, <2>3, <2>5, <2>6, <2>7, Zenon DEF Construct
<1>2. ASSUME NEW c \in Clients, Crash(c)
      PROVE  TypeOK'
  <2>1. Unknown \in [Fingerprints -> {"unknown", "trusted", "refused"}]
    BY SMT DEF Unknown
  <2>2. mode' \in [Clients -> Modes \union {"off"}]
    BY <1>2, SMT DEF Crash
  <2>3. /\ entries' \in [Clients -> Maps]
        /\ known' \in [Clients -> [Fingerprints -> {"unknown", "trusted", "refused"}]]
    BY <1>2, <2>1, NothingIsBacked, Zenon DEF Crash
  <2>4. /\ stage' \in [Clients -> {"free", "asking", "saving", "opened", "written"}]
        /\ handle' \in [Clients -> {"none", "tmp", "file", "gone"}]
    BY <1>2, SMT DEF Crash
  <2>. QED  BY <1>2, <2>2, <2>3, <2>4, Zenon DEF Crash, history
<1>3. ASSUME NEW c \in Clients, NEW f \in Fingerprints, Ask(c, f)
      PROVE  TypeOK'
  BY <1>3, SMT DEF Ask
<1>4. ASSUME NEW c \in Clients, NEW verdict \in {"trusted", "refused"}, Settle(c, verdict)
      PROVE  /\ known' \in [Clients -> [Fingerprints -> {"unknown", "trusted", "refused"}]]
             /\ stage' \in [Clients -> {"free", "asking", "saving", "opened", "written"}]
  BY <1>4, SMT DEF Settle
<1>5. ASSUME NEW c \in Clients, Refuse(c)
      PROVE  TypeOK'
  <2>1. Settle(c, "refused")
    BY <1>5, Zenon DEF Refuse
  <2>. QED  BY <1>4, <1>5, <2>1, Zenon DEF Refuse, history
<1>6. ASSUME NEW c \in Clients, Approve(c)
      PROVE  approved' \in [Hosts -> SUBSET Fingerprints]
  BY <1>6, HostFacts, SMT DEF Approve
<1>7. ASSUME NEW c \in Clients, AcceptGeneric(c)
      PROVE  TypeOK'
  <2>1. Settle(c, "trusted") /\ Approve(c)
    BY <1>7, Zenon DEF AcceptGeneric
  <2>. QED  BY <1>4, <1>6, <1>7, <2>1, Zenon DEF AcceptGeneric
<1>8. ASSUME NEW c \in Clients, Accept(c)
      PROVE  TypeOK'
  <2>1. entries' \in [Clients -> Maps]
    BY <1>8, HostFacts, SMT DEF Accept, Maps
  <2>2. kept' \in Maps
    BY <1>8, HostFacts, SMT DEF Accept, Maps
  <2>3. stage' \in [Clients -> {"free", "asking", "saving", "opened", "written"}]
    BY <1>8, SMT DEF Accept
  <2>. QED  BY <1>6, <1>8, <2>1, <2>2, <2>3, Zenon DEF Accept
<1>9. ASSUME NEW c \in Clients, Open(c)
      PROVE  TypeOK'
  <2>1. /\ stage' \in [Clients -> {"free", "asking", "saving", "opened", "written"}]
        /\ handle' \in [Clients -> {"none", "tmp", "file", "gone"}]
        /\ raced' \in BOOLEAN
    BY <1>9, SMT DEF Open
  <2>. QED  BY <1>9, <2>1, NothingIsBacked, Zenon DEF Open
<1>10. ASSUME NEW c \in Clients, Write(c)
       PROVE  TypeOK'
  <2>1. file' \in Maps /\ tmp' \in Maps \union {NoTemp}
    BY <1>10, Zenon DEF Write, Put
  <2>2. stage' \in [Clients -> {"free", "asking", "saving", "opened", "written"}]
    BY <1>10, SMT DEF Write
  <2>. QED  BY <1>10, <2>1, <2>2, Zenon DEF Write, history
<1>11. ASSUME NEW c \in Clients, Rename(c)
       PROVE  TypeOK'
  <2>1. file' \in Maps /\ tmp' \in Maps \union {NoTemp} /\ saved' \in Maps
    BY <1>11, Zenon DEF Rename
  <2>2. handle' \in [Clients -> {"none", "tmp", "file", "gone"}]
    BY <1>11, MovedType, SMT DEF Rename
  <2>3. kept' \in Maps
    BY <1>11, HostFacts, SMT DEF Rename, Maps
  <2>4. Settle(c, "trusted")
    BY <1>11, Zenon DEF Rename
  <2>. QED  BY <1>4, <1>11, <2>1, <2>2, <2>3, <2>4, Zenon DEF Rename
<1>12. ASSUME NEW c \in Clients, GiveUp(c), file' \in Maps
       PROVE  TypeOK'
  <2>1. handle' \in [Clients -> {"none", "tmp", "file", "gone"}]
    BY <1>12, MovedType, SMT DEF GiveUp
  <2>2. Settle(c, "trusted")
    BY <1>12, Zenon DEF GiveUp
  <2>. QED  BY <1>4, <1>12, <2>1, <2>2, Zenon DEF GiveUp, history
<1>13. ASSUME NEW c \in Clients, WriteFails(c) \/ RenameFails(c)
       PROVE  TypeOK'
  <2>1. GiveUp(c) /\ file' \in Maps
    BY <1>13, NothingIsBacked, Zenon DEF WriteFails, RenameFails
  <2>. QED  BY <1>12, <2>1, Zenon
<1>14. ASSUME NEW c \in Clients, OpenFails(c)
       PROVE  TypeOK'
  <2>1. Settle(c, "trusted")
    BY <1>14, Zenon DEF OpenFails
  <2>. QED  BY <1>4, <1>14, <2>1, Zenon DEF OpenFails, history
<1>15. CASE UNCHANGED vars
  BY <1>15, Zenon DEF vars
<1>. QED
  BY <1>1, <1>2, <1>3, <1>5, <1>7, <1>8, <1>9, <1>10, <1>11, <1>13, <1>14, <1>15, Zenon
  DEF Next, User, Save

----
(* Approvals *)

LEMMA ApprovedGrows ==
  ASSUME TypeOK, [Next]_vars
  PROVE  \A h \in Hosts : approved[h] \subseteq approved'[h]
PROOF
<1>1. ASSUME NEW c \in Clients, Approve(c)
      PROVE  \A h \in Hosts : approved[h] \subseteq approved'[h]
  BY <1>1, HostFacts, Zenon DEF Approve, TypeOK
<1>2. CASE approved' = approved
  BY <1>2, Zenon
<1>3. CASE UNCHANGED vars
  BY <1>2, <1>3, Zenon DEF vars
<1>. QED
  BY <1>1, <1>2, <1>3, Zenon DEF Next, User, Save, Load, LoadFails, Construct, Crash, Ask, Refuse,
     AcceptGeneric, Accept, Open, OpenFails, Write, WriteFails, Rename, RenameFails, GiveUp, history

LEMMA ApprovalInit == Init => ApprovalInv
PROOF
<1>. SUFFICES ASSUME Init
             PROVE  ApprovalInv
  OBVIOUS
<1>1. \A c \in Clients : stage[c] = "free" /\ ~InSave(c)
  <2>1. \A c \in Clients : stage[c] = "free"
    BY Zenon DEF Init
  <2>2. "free" \notin {"saving", "opened", "written"}
    OBVIOUS
  <2>. QED  BY <2>1, <2>2, Zenon DEF InSave
<1>2. \A c \in Clients : \A f \in Fingerprints : known[c][f] # "trusted"
  BY SMT DEF Init, Unknown
<1>3. /\ \A c \in Clients : Backed(entries[c], approved)
      /\ Backed(file, approved) /\ tmp = NoTemp
  BY NothingIsBacked, Zenon DEF Init
<1>. QED  BY <1>1, <1>2, <1>3, Zenon DEF ApprovalInv, TrustIsApproved

\* A step that changes no verdict but that of about[c], which is settled.
LEMMA ApprovalSettled ==
  ASSUME TypeOK, ApprovalInv, NEW c \in Clients, NEW verdict \in {"trusted", "refused"},
         Settle(c, verdict), \A h \in Hosts : approved[h] \subseteq approved'[h],
         verdict = "trusted" => about[c] \in approved'[HostOf[c]],
         mode' = mode, about' = about
  PROVE  /\ (\A d \in Clients : mode[d] = "off" => stage[d] = "free")'
         /\ (\A d \in Clients : InSave(d) => about[d] \in approved[HostOf[d]])'
         /\ TrustIsApproved'
PROOF
<1>1. \A d \in Clients : stage'[d] = IF d = c THEN "free" ELSE stage[d]
  BY Zenon DEF Settle, TypeOK
<1>2. \A d \in Clients : InSave(d)' => InSave(d)
  BY <1>1, SMT DEF InSave
<1>3. \A d \in Clients : mode[d] = "off" => stage'[d] = "free"
  BY <1>1, Zenon DEF ApprovalInv
<1>4. \A d \in Clients : InSave(d)' => about[d] \in approved'[HostOf[d]]
  BY <1>2, HostFacts, Zenon DEF ApprovalInv
<1>5. ASSUME NEW d \in Clients, NEW f \in Fingerprints, known'[d][f] = "trusted"
      PROVE  f \in Seeded[d] \union approved'[HostOf[d]]
  <2>1. CASE d = c /\ f = about[c]
    <3>1. known'[c][about[c]] = verdict
      BY Zenon DEF Settle, TypeOK
    <3>. QED  BY <1>5, <2>1, <3>1, Zenon
  <2>2. CASE ~(d = c /\ f = about[c])
    <3>1. known'[d][f] = known[d][f]
      BY <2>2, Zenon DEF Settle, TypeOK
    <3>. QED  BY <1>5, <3>1, HostFacts, Zenon DEF ApprovalInv, TrustIsApproved
  <2>. QED  BY <2>1, <2>2
<1>. QED  BY <1>3, <1>4, <1>5, Zenon DEF TrustIsApproved

LEMMA ApprovalNext == TypeOK /\ ApprovalInv /\ [Next]_vars => ApprovalInv'
PROOF
<1>. SUFFICES ASSUME TypeOK, ApprovalInv, [Next]_vars
             PROVE  ApprovalInv'
  OBVIOUS
<1>0. \A h \in Hosts : approved[h] \subseteq approved'[h]
  BY ApprovedGrows
<1>a. /\ \A c \in Clients : mode[c] = "off" => stage[c] = "free"
      /\ \A c \in Clients : Backed(entries[c], approved')
      /\ Backed(file, approved')
      /\ tmp # NoTemp => Backed(tmp, approved')
      /\ \A c \in Clients : InSave(c) => about[c] \in approved'[HostOf[c]]
      /\ \A c \in Clients : \A f \in Fingerprints :
            known[c][f] = "trusted" => f \in Seeded[c] \union approved'[HostOf[c]]
  BY <1>0, BackedGrows, HostFacts, Zenon DEF ApprovalInv, TrustIsApproved
<1>b. ASSUME about' = about, stage' = stage
      PROVE  \A d \in Clients : InSave(d)' => about'[d] \in approved'[HostOf[d]]
  BY <1>a, <1>b, Zenon DEF InSave
<1>c. ASSUME known' = known
      PROVE  TrustIsApproved'
  BY <1>a, <1>c, Zenon DEF TrustIsApproved
<1>1. ASSUME NEW c \in Clients, Load(c) \/ LoadFails(c)
      PROVE  ApprovalInv'
  <2>1. PICK map \in Maps : Construct(c, map) /\ Backed(map, approved')
    BY <1>1, <1>a, NothingIsBacked, Zenon DEF Load, LoadFails, TypeOK
  <2>2. \A d \in Clients : mode'[d] = "off" => stage'[d] = "free"
    <3>1. PICK m : mode' = [mode EXCEPT ![c] = m] /\ mode[c] = "off" /\ stage' = stage
      BY <2>1, Zenon DEF Construct
    <3>. QED  BY <3>1, <1>a, Zenon DEF TypeOK
  <2>3. \A d \in Clients : Backed(entries'[d], approved')
    BY <2>1, <1>a, Zenon DEF Construct, TypeOK
  <2>4. \A d \in Clients : \A f \in Fingerprints :
           known'[d][f] = "trusted" => f \in Seeded[d] \union approved'[HostOf[d]]
    <3> SUFFICES ASSUME NEW d \in Clients, NEW f \in Fingerprints, known'[d][f] = "trusted"
                 PROVE  f \in Seeded[d] \union approved'[HostOf[d]]
      OBVIOUS
    <3>1. CASE d = c
      <4>1. known'[c] = SeededFrom(c, map)
        BY <2>1, Zenon DEF Construct, TypeOK
      <4>2. f \in Seeded[c] \/ map[f] = HostOf[c]
        BY <3>1, <4>1, SMT DEF SeededFrom
      <4>3. map[f] = HostOf[c] => f \in approved'[HostOf[c]]
        BY <2>1, HostFacts, Zenon DEF Backed
      <4>. QED  BY <3>1, <4>2, <4>3, Zenon
    <3>2. CASE d # c
      <4>1. known'[d] = known[d]
        BY <2>1, <3>2, Zenon DEF Construct, TypeOK
      <4>. QED  BY <4>1, <1>a, Zenon
    <3>. QED  BY <3>1, <3>2
  <2>. QED  BY <2>1, <2>2, <2>3, <2>4, <1>a, <1>b, Zenon DEF Construct, ApprovalInv, TrustIsApproved
<1>2. ASSUME NEW c \in Clients, Crash(c)
      PROVE  ApprovalInv'
  <2>1. \A d \in Clients : stage'[d] = IF d = c THEN "free" ELSE stage[d]
    BY <1>2, Zenon DEF Crash, TypeOK
  <2>2. \A d \in Clients : mode'[d] = "off" => stage'[d] = "free"
    BY <1>2, <2>1, <1>a, Zenon DEF Crash, TypeOK
  <2>3. \A d \in Clients : InSave(d)' => about'[d] \in approved'[HostOf[d]]
    <3>1. \A d \in Clients : InSave(d)' => InSave(d)
      BY <2>1, SMT DEF InSave
    <3>. QED  BY <1>2, <3>1, <1>a, Zenon DEF Crash
  <2>4. \A d \in Clients : Backed(entries'[d], approved')
    BY <1>2, <1>a, NothingIsBacked, Zenon DEF Crash, TypeOK
  <2>5. \A d \in Clients : known'[d] = known[d] \/ \A f \in Fingerprints : known'[d][f] = "unknown"
    <3>1. \A d \in Clients : known'[d] = known[d] \/ known'[d] = Unknown
      BY <1>2, Zenon DEF Crash, TypeOK
    <3>. QED  BY <3>1, Zenon DEF Unknown
  <2>6. "unknown" # "trusted"
    OBVIOUS
  <2>7. TrustIsApproved'
    BY <2>5, <2>6, <1>a, Zenon DEF TrustIsApproved
  <2>. QED  BY <1>2, <2>2, <2>3, <2>4, <2>7, <1>a, Zenon DEF Crash, ApprovalInv, history
<1>3. ASSUME NEW c \in Clients, NEW f \in Fingerprints, Ask(c, f)
      PROVE  ApprovalInv'
  <2>1. mode[c] # "off" /\ mode' = mode
    BY <1>3, SMT DEF Ask
  <2>2. \A d \in Clients :
           IF d = c THEN stage'[d] = "asking" ELSE stage'[d] = stage[d] /\ about'[d] = about[d]
    BY <1>3, Zenon DEF Ask, TypeOK
  <2>3. \A d \in Clients : mode'[d] = "off" => stage'[d] = "free"
    BY <2>1, <2>2, <1>a, Zenon
  <2>4. \A d \in Clients : InSave(d)' => d # c /\ InSave(d)
    BY <2>2, SMT DEF InSave
  <2>5. \A d \in Clients : InSave(d)' => about'[d] \in approved'[HostOf[d]]
    BY <2>2, <2>4, <1>a, Zenon
  <2>. QED  BY <1>3, <2>3, <2>5, <1>a, <1>c, Zenon DEF Ask, ApprovalInv
<1>4. ASSUME NEW c \in Clients, Refuse(c)
      PROVE  ApprovalInv'
  <2>1. "refused" # "trusted"
    OBVIOUS
  <2>. QED  BY <1>4, <2>1, <1>0, <1>a, ApprovalSettled, Zenon DEF Refuse, ApprovalInv, history
<1>5. ASSUME NEW c \in Clients, Approve(c)
      PROVE  about[c] \in approved'[HostOf[c]]
  BY <1>5, HostFacts, Zenon DEF Approve, TypeOK
<1>6. ASSUME NEW c \in Clients, AcceptGeneric(c)
      PROVE  ApprovalInv'
  BY <1>5, <1>6, <1>0, <1>a, ApprovalSettled, Zenon DEF AcceptGeneric, ApprovalInv
<1>7. ASSUME NEW c \in Clients, Accept(c)
      PROVE  ApprovalInv'
  <2>1. about[c] \in approved'[HostOf[c]]
    BY <1>5, <1>7, Zenon DEF Accept
  <2>2. \A d \in Clients : stage'[d] = IF d = c THEN "saving" ELSE stage[d]
    BY <1>7, Zenon DEF Accept, TypeOK
  <2>3. mode[c] # "off" /\ mode' = mode
    BY <1>7, SMT DEF Accept
  <2>4. \A d \in Clients : mode'[d] = "off" => stage'[d] = "free"
    BY <2>2, <2>3, <1>a, Zenon
  <2>5. \A d \in Clients : d # c /\ InSave(d)' => InSave(d)
    BY <2>2, SMT DEF InSave
  <2>6. \A d \in Clients : InSave(d)' => about'[d] \in approved'[HostOf[d]]
    BY <1>7, <2>1, <2>5, <1>a, Zenon DEF Accept
  <2>7. Backed(entries'[c], approved')
    <3>1. \A f \in Fingerprints :
             entries'[c][f] = IF f = about[c] THEN HostOf[c] ELSE entries[c][f]
      BY <1>7, Zenon DEF Accept, TypeOK, Maps
    <3>. QED  BY <3>1, <2>1, <1>a, HostFacts, Zenon DEF Backed
  <2>8. \A d \in Clients : Backed(entries'[d], approved')
    BY <1>7, <2>7, <1>a, Zenon DEF Accept, TypeOK
  <2>. QED  BY <1>7, <2>4, <2>6, <2>8, <1>a, <1>c, Zenon DEF Accept, ApprovalInv
<1>8. ASSUME NEW c \in Clients, NEW s \in {"opened", "written"}, InSave(c),
             stage' = [stage EXCEPT ![c] = s], mode' = mode, about' = about
      PROVE  /\ \A d \in Clients : mode'[d] = "off" => stage'[d] = "free"
             /\ \A d \in Clients : InSave(d)' => about'[d] \in approved'[HostOf[d]]
  <2>1. \A d \in Clients : stage'[d] = IF d = c THEN s ELSE stage[d]
    BY <1>8, Zenon DEF TypeOK
  <2>2. \A d \in Clients : InSave(d)' => InSave(d)
    BY <1>8, <2>1, SMT DEF InSave
  <2>3. stage[c] # "free"
    BY <1>8, SMT DEF InSave
  <2>. QED  BY <1>8, <2>1, <2>2, <2>3, <1>a, Zenon
<1>9. ASSUME NEW c \in Clients, Open(c)
      PROVE  ApprovalInv'
  <2>1. InSave(c)
    BY <1>9, Zenon DEF Open, InSave
  <2>. QED  BY <1>8, <1>9, <2>1, <1>a, <1>c, NothingIsBacked, Zenon DEF Open, ApprovalInv
<1>10. ASSUME NEW c \in Clients, Write(c)
       PROVE  ApprovalInv'
  <2>1. InSave(c)
    BY <1>10, Zenon DEF Write, InSave
  <2>2. Backed(file', approved') /\ (tmp' # NoTemp => Backed(tmp', approved'))
    BY <1>10, <1>a, Zenon DEF Write, Put
  <2>. QED  BY <1>8, <1>10, <2>1, <2>2, <1>a, <1>c, Zenon DEF Write, ApprovalInv, history
<1>11. ASSUME NEW c \in Clients, Settle(c, "trusted"), InSave(c), mode' = mode, about' = about
       PROVE  /\ (\A d \in Clients : mode[d] = "off" => stage[d] = "free")'
              /\ (\A d \in Clients : InSave(d) => about[d] \in approved[HostOf[d]])'
              /\ TrustIsApproved'
  BY <1>11, <1>0, <1>a, ApprovalSettled, Zenon
<1>12. ASSUME NEW c \in Clients, Rename(c)
       PROVE  ApprovalInv'
  <2>1. InSave(c)
    BY <1>12, Zenon DEF Rename, InSave
  <2>. QED  BY <1>11, <1>12, <2>1, <1>a, Zenon DEF Rename, ApprovalInv
<1>13. ASSUME NEW c \in Clients, GiveUp(c), InSave(c), file' = file \/ file' = Nothing
       PROVE  ApprovalInv'
  BY <1>11, <1>13, <1>a, NothingIsBacked, Zenon DEF GiveUp, ApprovalInv, history
<1>14. ASSUME NEW c \in Clients, WriteFails(c) \/ RenameFails(c)
       PROVE  ApprovalInv'
  <2>1. InSave(c) /\ GiveUp(c) /\ (file' = file \/ file' = Nothing)
    BY <1>14, Zenon DEF WriteFails, RenameFails, InSave
  <2>. QED  BY <1>13, <2>1, Zenon
<1>15. ASSUME NEW c \in Clients, OpenFails(c)
       PROVE  ApprovalInv'
  <2>1. InSave(c)
    BY <1>15, Zenon DEF OpenFails, InSave
  <2>. QED  BY <1>11, <1>15, <2>1, <1>a, Zenon DEF OpenFails, ApprovalInv, history
<1>16. CASE UNCHANGED vars
  BY <1>16, <1>a, <1>b, <1>c, Zenon DEF vars, ApprovalInv
<1>. QED
  BY <1>1, <1>2, <1>3, <1>4, <1>6, <1>7, <1>9, <1>10, <1>12, <1>14, <1>15, <1>16, Zenon
  DEF Next, User, Save

----
(* Whole saves *)

LEMMA WholeInit == Init => WholeInv
PROOF
<1>. SUFFICES ASSUME Init
             PROVE  WholeInv
  OBVIOUS
<1>1. \A c \in Clients : stage[c] = "free"
  BY Zenon DEF Init
<1>2. "free" \notin {"opened", "written"}
  OBVIOUS
<1>3. file = saved
  BY Zenon DEF Init
<1>. QED  BY <1>1, <1>2, <1>3, Zenon DEF WholeInv, Saving

\* A step of a client that has no file open afterwards, and that leaves the files
\* alone, or had the only one open.
LEMMA WholeLet ==
  ASSUME TypeOK, WholeInv, NEW c \in Clients, raced' = raced,
         ~Saving(c)', \A d \in Clients : d # c => stage'[d] = stage[d] /\ entries'[d] = entries[d],
         \/ UNCHANGED <<file, saved, tmp, handle>>
         \/ Saving(c) /\ (~raced => file' = saved')
  PROVE  WholeInv'
PROOF
<1>. SUFFICES ASSUME ~raced'
             PROVE  /\ file' = saved'
                    /\ (\A a, b \in Clients : Saving(a) /\ Saving(b) => a = b)'
                    /\ (\A a \in Clients : Saving(a) => handle[a] = "tmp")'
                    /\ (\A a \in Clients : stage[a] = "written" => tmp = entries[a])'
  BY Zenon DEF WholeInv
<1>1. /\ file = saved
      /\ \A a, b \in Clients : Saving(a) /\ Saving(b) => a = b
      /\ \A a \in Clients : Saving(a) => handle[a] = "tmp"
      /\ \A a \in Clients : stage[a] = "written" => tmp = entries[a]
  BY Zenon DEF WholeInv
<1>2. \A a \in Clients : Saving(a)' => a # c /\ Saving(a)
  BY Zenon DEF Saving
<1>3. stage'[c] # "written"
  BY SMT DEF Saving
<1>4. \A a \in Clients : stage'[a] = "written" => a # c /\ stage[a] = "written" /\ Saving(a)'
  BY <1>3, SMT DEF Saving
<1>5. CASE UNCHANGED <<file, saved, tmp, handle>>
  BY <1>1, <1>2, <1>4, <1>5, Zenon
<1>6. CASE Saving(c) /\ (~raced => file' = saved')
  BY <1>1, <1>2, <1>4, <1>6, Zenon
<1>. QED  BY <1>5, <1>6, Zenon

LEMMA WholeNext == TypeOK /\ ApprovalInv /\ WholeInv /\ [Next]_vars => WholeInv'
PROOF
<1>. SUFFICES ASSUME TypeOK, ApprovalInv, WholeInv, [Next]_vars
             PROVE  WholeInv'
  OBVIOUS
<1>0. \A c \in Clients : stage[c] = "free" \/ stage[c] = "asking" \/ stage[c] = "saving" => ~Saving(c)
  BY SMT DEF Saving
<1>a. ASSUME NEW c \in Clients, NEW verdict, Settle(c, verdict)
      PROVE  ~Saving(c)' /\ \A d \in Clients : d # c => stage'[d] = stage[d]
  <2>1. \A d \in Clients : stage'[d] = IF d = c THEN "free" ELSE stage[d]
    BY <1>a, Zenon DEF Settle, TypeOK
  <2>. QED  BY <2>1, SMT DEF Saving
<1>b. ASSUME ~raced
      PROVE  /\ file = saved
             /\ \A a, b \in Clients : Saving(a) /\ Saving(b) => a = b
             /\ \A a \in Clients : Saving(a) => handle[a] = "tmp"
             /\ \A a \in Clients : stage[a] = "written" => tmp = entries[a]
  BY <1>b, Zenon DEF WholeInv
<1>1. ASSUME NEW c \in Clients, NEW map, Construct(c, map)
      PROVE  WholeInv'
  <2>1. stage[c] = "free" /\ stage' = stage
    BY <1>1, Zenon DEF Construct, ApprovalInv
  <2>2. ~Saving(c)'
    BY <2>1, <1>0, Zenon DEF Saving
  <2>3. \A d \in Clients : d # c => entries'[d] = entries[d]
    BY <1>1, Zenon DEF Construct, TypeOK
  <2>. QED  BY <1>1, <2>1, <2>2, <2>3, WholeLet, Zenon DEF Construct
<1>2. ASSUME NEW c \in Clients, Crash(c)
      PROVE  WholeInv'
  <2>1. \A d \in Clients : stage'[d] = IF d = c THEN "free" ELSE stage[d]
    BY <1>2, Zenon DEF Crash, TypeOK
  <2>2. ~Saving(c)'
    BY <2>1, SMT DEF Saving
  <2>3. \A d \in Clients : d # c =>
           /\ stage'[d] = stage[d] /\ entries'[d] = entries[d] /\ handle'[d] = handle[d]
    BY <1>2, Zenon DEF Crash, TypeOK
  <2>4. \A d \in Clients : Saving(d)' => d # c /\ Saving(d)
    BY <2>2, <2>3, Zenon DEF Saving
  <2>5. \A d \in Clients : stage'[d] = "written" => d # c /\ stage[d] = "written"
    BY <2>1, SMT
  <2>. QED  BY <1>2, <1>b, <2>3, <2>4, <2>5, Zenon DEF Crash, WholeInv, history
<1>3. ASSUME NEW c \in Clients, NEW f \in Fingerprints, Ask(c, f)
      PROVE  WholeInv'
  <2>1. \A d \in Clients : stage'[d] = IF d = c THEN "asking" ELSE stage[d]
    BY <1>3, Zenon DEF Ask, TypeOK
  <2>2. ~Saving(c)' /\ \A d \in Clients : d # c => stage'[d] = stage[d]
    BY <2>1, SMT DEF Saving
  <2>. QED  BY <1>3, <2>2, WholeLet, Zenon DEF Ask
<1>4. ASSUME NEW c \in Clients, User(c) \/ OpenFails(c)
      PROVE  WholeInv'
  <2>1. CASE Refuse(c)
    BY <2>1, <1>a, WholeLet, Zenon DEF Refuse, history
  <2>2. CASE AcceptGeneric(c)
    BY <2>2, <1>a, WholeLet, Zenon DEF AcceptGeneric
  <2>3. CASE Accept(c)
    <3>1. \A d \in Clients : stage'[d] = IF d = c THEN "saving" ELSE stage[d]
      BY <2>3, Zenon DEF Accept, TypeOK
    <3>2. ~Saving(c)' /\ \A d \in Clients : d # c => stage'[d] = stage[d]
      BY <3>1, SMT DEF Saving
    <3>3. \A d \in Clients : d # c => entries'[d] = entries[d]
      BY <2>3, Zenon DEF Accept, TypeOK
    <3>. QED  BY <2>3, <3>2, <3>3, WholeLet, Zenon DEF Accept
  <2>4. CASE OpenFails(c)
    BY <2>4, <1>a, WholeLet, Zenon DEF OpenFails, history
  <2>. QED  BY <1>4, <2>1, <2>2, <2>3, <2>4, Zenon DEF User
<1>5. ASSUME NEW c \in Clients, Open(c)
      PROVE  WholeInv'
  <2> SUFFICES ASSUME ~raced'
               PROVE  WholeInv'
    BY Zenon DEF WholeInv
  <2>1. ~raced /\ \A d \in Clients : ~Saving(d)
    BY <1>5, Zenon DEF Open
  <2>2. \A d \in Clients : stage'[d] = IF d = c THEN "opened" ELSE stage[d]
    BY <1>5, Zenon DEF Open, TypeOK
  <2>3. \A d \in Clients : Saving(d)' => d = c
    BY <2>1, <2>2, Zenon DEF Saving
  <2>4. \A d \in Clients : stage'[d] # "written"
    BY <2>1, <2>2, SMT DEF Saving
  <2>5. handle'[c] = "tmp"
    BY <1>5, Zenon DEF Open, TypeOK
  <2>. QED  BY <1>5, <1>b, <2>1, <2>3, <2>4, <2>5, Zenon DEF Open, WholeInv
<1>6. ASSUME NEW c \in Clients, Write(c)
      PROVE  WholeInv'
  <2> SUFFICES ASSUME ~raced'
               PROVE  WholeInv'
    BY Zenon DEF WholeInv
  <2>1. ~raced /\ Saving(c)
    BY <1>6, Zenon DEF Write, history, Saving
  <2>2. handle[c] = "tmp" /\ handle' = handle
    BY <1>6, <1>b, <2>1, Zenon DEF Write
  <2>3. "tmp" # "file"
    OBVIOUS
  <2>4. file' = file /\ saved' = saved /\ tmp' = entries[c] /\ entries' = entries
    BY <1>6, <2>2, <2>3, Zenon DEF Write, Put, history
  <2>5. \A d \in Clients : stage'[d] = IF d = c THEN "written" ELSE stage[d]
    BY <1>6, Zenon DEF Write, TypeOK
  <2>6. \A d \in Clients : Saving(d)' => Saving(d)
    BY <2>1, <2>5, Zenon DEF Saving
  <2>7. \A d \in Clients : stage'[d] = "written" => d = c
    <3>1. \A d \in Clients : stage'[d] = "written" => Saving(d)'
      BY Zenon DEF Saving
    <3>. QED  BY <1>b, <2>1, <2>6, <3>1, Zenon
  <2>. QED  BY <1>b, <2>1, <2>2, <2>4, <2>6, <2>7, Zenon DEF WholeInv
<1>7. ASSUME NEW c \in Clients, Rename(c)
      PROVE  WholeInv'
  <2>1. Saving(c) /\ Settle(c, "trusted")
    BY <1>7, Zenon DEF Rename, Saving
  <2>2. ~raced => file' = saved'
    BY <1>7, <1>b, Zenon DEF Rename
  <2>. QED  BY <1>7, <1>a, <2>1, <2>2, WholeLet, Zenon DEF Rename
<1>8. ASSUME NEW c \in Clients, WriteFails(c) \/ RenameFails(c)
      PROVE  WholeInv'
  <2>1. Saving(c) /\ Settle(c, "trusted") /\ UNCHANGED <<entries, saved, raced>>
    BY <1>8, Zenon DEF WriteFails, RenameFails, Saving, GiveUp, history
  <2>2. "tmp" # "file"
    OBVIOUS
  <2>3. ~raced => file' = saved'
    BY <1>8, <1>b, <2>1, <2>2, Zenon DEF WriteFails, RenameFails
  <2>. QED  BY <1>a, <2>1, <2>3, WholeLet, Zenon
<1>9. CASE UNCHANGED vars
  BY <1>9, Zenon DEF vars, WholeInv, Saving
<1>. QED
  BY <1>1, <1>2, <1>3, <1>4, <1>5, <1>6, <1>7, <1>8, <1>9, Zenon
  DEF Next, Load, LoadFails, User, Save

----
(* Verdicts on what users were asked about *)

LEMMA AskInit == Init => AskInv
PROOF
  BY Zenon DEF Init, AskInv

LEMMA AskNext == TypeOK /\ ApprovalInv /\ AskInv /\ [Next]_vars => AskInv'
PROOF
<1>. SUFFICES ASSUME TypeOK, ApprovalInv, AskInv, [Next]_vars
             PROVE  AskInv'
  OBVIOUS
<1>1. ASSUME NEW c \in Clients, NEW map, Construct(c, map)
      PROVE  AskInv'
  <2>1. asked'[c] = {} /\ stage' = stage /\ about' = about
    BY <1>1, Zenon DEF Construct, TypeOK
  <2>2. \A d \in Clients : d # c =>
           mode'[d] = mode[d] /\ asked'[d] = asked[d] /\ known'[d] = known[d]
    BY <1>1, Zenon DEF Construct, TypeOK
  <2> SUFFICES ASSUME NEW d \in Clients, mode'[d] # "off", NEW f \in asked'[d]
               PROVE  known'[d][f] # "unknown" \/ (stage'[d] # "free" /\ about'[d] = f)
    BY Zenon DEF AskInv
  <2>3. d # c /\ mode[d] # "off" /\ f \in asked[d]
    BY <2>1, <2>2, Zenon
  <2>. QED  BY <2>1, <2>2, <2>3, Zenon DEF AskInv
<1>2. ASSUME NEW c \in Clients, Crash(c)
      PROVE  AskInv'
  <2>1. /\ mode'[c] = "off" /\ about' = about /\ asked' = asked
        /\ \A d \in Clients : d # c =>
              mode'[d] = mode[d] /\ known'[d] = known[d] /\ stage'[d] = stage[d]
    BY <1>2, Zenon DEF Crash, history, TypeOK
  <2> SUFFICES ASSUME NEW d \in Clients, mode'[d] # "off", NEW f \in asked'[d]
               PROVE  known'[d][f] # "unknown" \/ (stage'[d] # "free" /\ about'[d] = f)
    BY Zenon DEF AskInv
  <2>3. d # c /\ mode[d] # "off" /\ f \in asked[d]
    BY <2>1, Zenon
  <2>. QED  BY <2>1, <2>3, Zenon DEF AskInv
<1>3. ASSUME NEW c \in Clients, NEW f \in Fingerprints, Ask(c, f)
      PROVE  AskInv'
  <2>1. "asking" # "free"
    OBVIOUS
  <2>2. /\ asked'[c] = asked[c] \union {f} /\ about'[c] = f /\ stage'[c] = "asking"
        /\ stage[c] = "free" /\ known' = known /\ mode' = mode /\ mode[c] # "off"
        /\ \A d \in Clients : d # c =>
              asked'[d] = asked[d] /\ about'[d] = about[d] /\ stage'[d] = stage[d]
    <3>1. mode[c] # "off"
      BY <1>3, SMT DEF Ask
    <3>. QED  BY <1>3, <3>1, Zenon DEF Ask, TypeOK
  <2>3. ASSUME NEW g \in asked'[c]
        PROVE  known[c][g] # "unknown" \/ g = f
    BY <2>2, <2>3, Zenon DEF AskInv
  <2>4. ASSUME NEW d \in Clients, d # c, mode[d] # "off", NEW g \in asked[d]
        PROVE  known[d][g] # "unknown" \/ (stage[d] # "free" /\ about[d] = g)
    BY <2>4, Zenon DEF AskInv
  <2>. QED  BY <2>1, <2>2, <2>3, <2>4, Zenon DEF AskInv
<1>4. ASSUME NEW c \in Clients, NEW verdict \in {"trusted", "refused"}, Settle(c, verdict),
             mode' = mode, about' = about, asked' = asked
      PROVE  AskInv'
  <2>1. verdict # "unknown"
    OBVIOUS
  <2>2. /\ known'[c][about[c]] = verdict
        /\ \A f \in Fingerprints : f # about[c] => known'[c][f] = known[c][f]
        /\ \A d \in Clients : d # c => known'[d] = known[d] /\ stage'[d] = stage[d]
        /\ \A d \in Clients : asked[d] \subseteq Fingerprints
    BY <1>4, Zenon DEF Settle, TypeOK
  <2> SUFFICES ASSUME NEW d \in Clients, mode[d] # "off", NEW f \in asked[d]
               PROVE  known'[d][f] # "unknown" \/ (stage'[d] # "free" /\ about[d] = f)
    BY <1>4, Zenon DEF AskInv
  <2>3. known[d][f] # "unknown" \/ (stage[d] # "free" /\ about[d] = f)
    BY Zenon DEF AskInv
  <2>4. CASE d = c
    BY <2>1, <2>2, <2>3, <2>4, Zenon
  <2>5. CASE d # c
    BY <2>2, <2>3, <2>5, Zenon
  <2>. QED  BY <2>4, <2>5
<1>5. ASSUME NEW c \in Clients, NEW s \in {"saving", "opened", "written"},
             stage' = [stage EXCEPT ![c] = s],
             mode' = mode, about' = about, asked' = asked, known' = known
      PROVE  AskInv'
  <2>1. s # "free"
    OBVIOUS
  <2>2. \A d \in Clients : stage'[d] = IF d = c THEN s ELSE stage[d]
    BY <1>5, Zenon DEF TypeOK
  <2>3. \A d \in Clients : stage[d] # "free" => stage'[d] # "free"
    BY <2>1, <2>2, Zenon
  <2> SUFFICES ASSUME NEW d \in Clients, mode[d] # "off", NEW f \in asked[d]
               PROVE  known[d][f] # "unknown" \/ (stage'[d] # "free" /\ about[d] = f)
    BY <1>5, Zenon DEF AskInv
  <2>. QED  BY <2>3, Zenon DEF AskInv
<1>6. ASSUME NEW c \in Clients, User(c) \/ Save(c)
      PROVE  AskInv'
  BY <1>4, <1>5, <1>6, Zenon DEF User, Save, Refuse, AcceptGeneric, Accept, Open, OpenFails,
     Write, WriteFails, Rename, RenameFails, GiveUp, history
<1>7. CASE UNCHANGED vars
  BY <1>7, Zenon DEF vars, AskInv
<1>. QED  BY <1>1, <1>2, <1>3, <1>6, <1>7, Zenon DEF Next, Load, LoadFails

----
(* Clients that live one after the other *)

LEMMA AloneInit == Init => AloneInv
PROOF
<1>. SUFFICES ASSUME Init
             PROVE  AloneInv
  OBVIOUS
<1>1. ~raced /\ \A c \in Clients : mode[c] = "off" /\ stage[c] = "free"
  BY Zenon DEF Init
<1>2. "free" \notin {"saving", "opened", "written"}
  OBVIOUS
<1>3. \A f \in Fingerprints : kept[f] = NoHost
  BY Zenon DEF Init, Nothing
<1>. QED  BY <1>1, <1>2, <1>3, Zenon DEF AloneInv, InSave

\* A step of the only client, after which it has a verdict where it had one.
LEMMA AloneStep ==
  ASSUME TypeOK, AloneInv, NEW c \in Clients, ~disturbed, ~raced', mode' = mode, about' = about,
         kept' = kept, file' = file, entries' = entries,
         \A d \in Clients : InSave(d)' => InSave(d),
         \A d \in Clients : d # c => known'[d] = known[d],
         \A f \in Fingerprints : known[c][f] # "unknown" => known'[c][f] # "unknown"
  PROVE  AloneInv'
PROOF
<1>1. /\ \A a, b \in Clients : mode[a] # "off" /\ mode[b] # "off" => a = b
      /\ \A f \in Fingerprints : kept[f] # NoHost => file[f] = kept[f]
      /\ \A a \in Clients : InSave(a) => entries[a][about[a]] = HostOf[a]
      /\ \A a \in Clients : mode[a] # "off" =>
            \A f \in Fingerprints :
                /\ kept[f] # NoHost => entries[a][f] = kept[f]
                /\ kept[f] = HostOf[a] => known[a][f] # "unknown"
  BY Zenon DEF AloneInv
<1>2. ASSUME NEW a \in Clients, NEW f \in Fingerprints, known[a][f] # "unknown"
      PROVE  known'[a][f] # "unknown"
  BY <1>2, Zenon
<1>. QED  BY <1>1, <1>2, Zenon DEF AloneInv

LEMMA AloneNext == TypeOK /\ ApprovalInv /\ WholeInv /\ AloneInv /\ [Next]_vars => AloneInv'
PROOF
<1>. SUFFICES ASSUME TypeOK, ApprovalInv, WholeInv, AloneInv, [Next]_vars, ~disturbed'
             PROVE  AloneInv'
  BY Zenon DEF AloneInv
<1>0. \A c \in Clients : mode[c] = "off" => ~InSave(c) /\ ~Saving(c)
  <2>1. "free" \notin {"saving", "opened", "written"}
    OBVIOUS
  <2>. QED  BY <2>1, Zenon DEF ApprovalInv, InSave, Saving
<1>a. ASSUME NEW c \in Clients, NEW verdict \in {"trusted", "refused"}, Settle(c, verdict)
      PROVE  /\ \A d \in Clients : InSave(d)' => InSave(d)
             /\ \A d \in Clients : d # c => known'[d] = known[d]
             /\ \A f \in Fingerprints : known[c][f] # "unknown" => known'[c][f] # "unknown"
             /\ known'[c][about[c]] # "unknown"
  <2>1. verdict # "unknown"
    OBVIOUS
  <2>2. \A d \in Clients : stage'[d] = IF d = c THEN "free" ELSE stage[d]
    BY <1>a, Zenon DEF Settle, TypeOK
  <2>3. \A d \in Clients : InSave(d)' => InSave(d)
    BY <2>2, SMT DEF InSave
  <2>4. /\ known'[c][about[c]] = verdict
        /\ \A f \in Fingerprints : f # about[c] => known'[c][f] = known[c][f]
        /\ \A d \in Clients : d # c => known'[d] = known[d]
    BY <1>a, Zenon DEF Settle, TypeOK
  <2>. QED  BY <2>1, <2>3, <2>4, Zenon
<1>b. ASSUME ~disturbed
      PROVE  /\ ~raced
             /\ \A c, d \in Clients : mode[c] # "off" /\ mode[d] # "off" => c = d
             /\ \A f \in Fingerprints : kept[f] # NoHost => file[f] = kept[f]
             /\ \A c \in Clients : mode[c] # "off" =>
                   \A f \in Fingerprints :
                       /\ kept[f] # NoHost => entries[c][f] = kept[f]
                       /\ kept[f] = HostOf[c] => known[c][f] # "unknown"
             /\ \A c \in Clients : InSave(c) => entries[c][about[c]] = HostOf[c]
  BY <1>b, Zenon DEF AloneInv
<1>1. ASSUME NEW c \in Clients, Load(c)
      PROVE  AloneInv'
  <2>1. ~disturbed /\ \A d \in Clients : mode[d] = "off"
    BY <1>1, Zenon DEF Load
  <2>2. /\ entries'[c] = file /\ known'[c] = SeededFrom(c, file)
        /\ \A d \in Clients : d # c => mode'[d] = "off"
        /\ UNCHANGED <<stage, about, kept, file, raced>>
    BY <1>1, <2>1, Zenon DEF Load, Construct, TypeOK
  <2>3. \A d \in Clients : ~InSave(d)'
    BY <2>1, <2>2, <1>0, Zenon DEF InSave
  <2>4. \A f \in Fingerprints : file[f] = HostOf[c] => known'[c][f] # "unknown"
    BY <2>2, SMT DEF SeededFrom
  <2>. QED  BY <1>b, <2>1, <2>2, <2>3, <2>4, HostFacts, Zenon DEF AloneInv
<1>2. ASSUME NEW c \in Clients, LoadFails(c)
      PROVE  AloneInv'
  BY <1>2, Zenon DEF LoadFails
<1>3. ASSUME NEW c \in Clients, Crash(c)
      PROVE  AloneInv'
  <2>1. /\ mode'[c] = "off" /\ ~disturbed /\ UNCHANGED <<about, kept, file, raced>>
        /\ \A d \in Clients : d # c =>
              mode'[d] = mode[d] /\ entries'[d] = entries[d] /\ known'[d] = known[d]
    BY <1>3, Zenon DEF Crash, TypeOK, history
  <2>2. \A d \in Clients : stage'[d] = IF d = c THEN "free" ELSE stage[d]
    BY <1>3, Zenon DEF Crash, TypeOK
  <2>3. \A d \in Clients : InSave(d)' => d # c /\ InSave(d)
    BY <2>2, SMT DEF InSave
  <2>4. \A d \in Clients : mode'[d] # "off" => d # c /\ mode[d] # "off"
    BY <2>1, Zenon
  <2>5. /\ \A a, d \in Clients : mode'[a] # "off" /\ mode'[d] # "off" => a = d
        /\ \A d \in Clients : InSave(d)' => entries'[d][about'[d]] = HostOf[d]
    BY <1>b, <2>1, <2>3, <2>4, Zenon
  <2>6. \A d \in Clients : mode'[d] # "off" =>
           \A f \in Fingerprints :
               /\ kept'[f] # NoHost => entries'[d][f] = kept'[f]
               /\ kept'[f] = HostOf[d] => known'[d][f] # "unknown"
    <3> SUFFICES ASSUME NEW d \in Clients, mode'[d] # "off", NEW f \in Fingerprints
                 PROVE  /\ kept'[f] # NoHost => entries'[d][f] = kept'[f]
                        /\ kept'[f] = HostOf[d] => known'[d][f] # "unknown"
      OBVIOUS
    <3>1. d # c /\ mode[d] # "off"
      BY <2>4, Zenon
    <3>2. /\ kept[f] # NoHost => entries[d][f] = kept[f]
          /\ kept[f] = HostOf[d] => known[d][f] # "unknown"
      BY <1>b, <2>1, <3>1, Zenon
    <3>. QED  BY <2>1, <3>1, <3>2, Zenon
  <2>. QED  BY <1>b, <2>1, <2>5, <2>6, Zenon DEF AloneInv
<1>4. ASSUME NEW c \in Clients, NEW f \in Fingerprints, Ask(c, f)
      PROVE  AloneInv'
  <2>1. ~disturbed /\ UNCHANGED <<mode, entries, known, kept, file, raced>>
    BY <1>4, Zenon DEF Ask
  <2>2. \A d \in Clients :
           IF d = c THEN stage'[d] = "asking" ELSE stage'[d] = stage[d] /\ about'[d] = about[d]
    BY <1>4, Zenon DEF Ask, TypeOK
  <2>3. \A d \in Clients : InSave(d)' => d # c /\ InSave(d)
    BY <2>2, SMT DEF InSave
  <2>. QED  BY <1>b, <2>1, <2>2, <2>3, Zenon DEF AloneInv
<1>5. ASSUME NEW c \in Clients, Refuse(c) \/ AcceptGeneric(c) \/ OpenFails(c)
      PROVE  AloneInv'
  <2>1. PICK verdict \in {"trusted", "refused"} : Settle(c, verdict)
    BY <1>5, Zenon DEF Refuse, AcceptGeneric, OpenFails
  <2>2. ~disturbed /\ UNCHANGED <<mode, entries, about, file, kept, raced>>
    <3>1. CASE Refuse(c)
      BY <3>1, Zenon DEF Refuse, history
    <3>2. CASE AcceptGeneric(c)
      BY <3>2, Zenon DEF AcceptGeneric
    <3>3. CASE OpenFails(c)
      BY <3>3, Zenon DEF OpenFails, history
    <3>. QED  BY <1>5, <3>1, <3>2, <3>3, Zenon
  <2>. QED  BY <1>a, <1>b, <2>1, <2>2, AloneStep, Zenon
<1>6. ASSUME NEW c \in Clients, Accept(c)
      PROVE  AloneInv'
  <2>1. /\ ~disturbed /\ mode[c] # "off"
        /\ UNCHANGED <<mode, known, about, file, raced>>
    BY <1>6, SMT DEF Accept
  <2>2. /\ \A f \in Fingerprints :
              entries'[c][f] = IF f = about[c] THEN HostOf[c] ELSE entries[c][f]
        /\ \A d \in Clients : d # c => entries'[d] = entries[d]
    BY <1>6, Zenon DEF Accept, TypeOK, Maps
  <2>3. \A f \in Fingerprints :
           /\ kept'[f] = kept[f] \/ kept'[f] = NoHost
           /\ f = about[c] => kept'[f] = NoHost \/ kept'[f] = HostOf[c]
    BY <1>6, Zenon DEF Accept, TypeOK, Maps
  <2>4. \A d \in Clients : d # c => mode[d] = "off" /\ stage'[d] = stage[d]
    BY <1>6, <1>b, <2>1, Zenon DEF Accept, TypeOK
  <2>5. \A d \in Clients : InSave(d)' => d = c
    BY <1>0, <2>4, Zenon DEF InSave
  <2>6. \A f \in Fingerprints : kept'[f] # NoHost => file'[f] = kept'[f]
    BY <1>b, <2>1, <2>3, Zenon
  <2>7. \A f \in Fingerprints :
           /\ kept'[f] # NoHost => entries'[c][f] = kept'[f]
           /\ kept'[f] = HostOf[c] => known'[c][f] # "unknown"
    <3> SUFFICES ASSUME NEW f \in Fingerprints, kept'[f] # NoHost
                 PROVE  /\ entries'[c][f] = kept'[f]
                        /\ kept'[f] = HostOf[c] => known'[c][f] # "unknown"
      BY HostFacts, Zenon
    <3>1. kept'[f] = kept[f] /\ (f = about[c] => kept'[f] = HostOf[c])
      BY <2>3, Zenon
    <3>2. entries[c][f] = kept[f] /\ (kept[f] = HostOf[c] => known[c][f] # "unknown")
      BY <1>b, <2>1, <3>1, Zenon
    <3>. QED  BY <2>1, <2>2, <3>1, <3>2, Zenon
  <2>8. entries'[c][about'[c]] = HostOf[c]
    BY <2>1, <2>2, Zenon DEF TypeOK
  <2>9. /\ \A d \in Clients : mode'[d] # "off" => d = c
        /\ \A d \in Clients : InSave(d)' => entries'[d][about'[d]] = HostOf[d]
    BY <2>1, <2>4, <2>5, <2>8, Zenon
  <2>10. ~raced' /\ \A d, e \in Clients : mode'[d] # "off" /\ mode'[e] # "off" => d = e
    BY <1>b, <2>1, <2>9, Zenon
  <2>11. \A d \in Clients : mode'[d] # "off" =>
            \A f \in Fingerprints :
                /\ kept'[f] # NoHost => entries'[d][f] = kept'[f]
                /\ kept'[f] = HostOf[d] => known'[d][f] # "unknown"
    BY <2>7, <2>9, Zenon
  <2>. QED  BY <2>6, <2>9, <2>10, <2>11, Zenon DEF AloneInv
<1>7. ASSUME NEW c \in Clients, NEW s \in {"opened", "written"}, InSave(c), ~disturbed, ~raced',
             stage' = [stage EXCEPT ![c] = s],
             UNCHANGED <<mode, entries, known, about, kept, file>>
      PROVE  AloneInv'
  <2>1. \A d \in Clients : stage'[d] = IF d = c THEN s ELSE stage[d]
    BY <1>7, Zenon DEF TypeOK
  <2>2. \A d \in Clients : InSave(d)' => InSave(d)
    BY <1>7, <2>1, Zenon DEF InSave
  <2>. QED  BY <1>7, <2>2, AloneStep, Zenon
<1>8. ASSUME NEW c \in Clients, Open(c)
      PROVE  AloneInv'
  <2>1. InSave(c) /\ ~Saving(c) /\ ~disturbed
    BY <1>8, SMT DEF Open, InSave, Saving
  <2>2. ~raced'
    BY <1>0, <1>8, <1>b, <2>1, Zenon DEF Open
  <2>. QED  BY <1>7, <1>8, <2>1, <2>2, Zenon DEF Open
<1>9. ASSUME NEW c \in Clients, Saving(c), ~disturbed
      PROVE  InSave(c) /\ handle[c] = "tmp" /\ mode[c] # "off"
  <2>1. InSave(c)
    BY <1>9, SMT DEF Saving, InSave
  <2>. QED  BY <1>0, <1>9, <1>b, <2>1, Zenon DEF WholeInv
<1>10. ASSUME NEW c \in Clients, Write(c)
       PROVE  AloneInv'
  <2>1. Saving(c) /\ ~disturbed /\ ~raced
    BY <1>10, <1>b, Zenon DEF Write, Saving, history
  <2>2. "tmp" # "file"
    OBVIOUS
  <2>3. file' = file
    BY <1>9, <1>10, <2>1, <2>2, Zenon DEF Write, Put
  <2>. QED  BY <1>7, <1>9, <1>10, <2>1, <2>3, Zenon DEF Write, history
<1>11. ASSUME NEW c \in Clients, Rename(c)
       PROVE  AloneInv'
  <2>1. /\ Saving(c) /\ ~disturbed /\ ~raced /\ ~raced'
        /\ UNCHANGED <<mode, entries, about>>
    BY <1>11, <1>b, Zenon DEF Rename, Saving
  <2>2. InSave(c) /\ mode[c] # "off" /\ file' = entries[c] /\ entries[c][about[c]] = HostOf[c]
    BY <1>9, <1>11, <1>b, <2>1, Zenon DEF Rename, WholeInv
  <2>3. \A d \in Clients : d # c => mode[d] = "off"
    BY <1>b, <2>1, <2>2, Zenon
  <2>4. \A f \in Fingerprints : kept'[f] = IF f = about[c] THEN HostOf[c] ELSE kept[f]
    BY <1>11, Zenon DEF Rename, TypeOK, Maps
  <2>5. \A f \in Fingerprints : kept'[f] # NoHost => entries[c][f] = kept'[f]
    BY <1>b, <2>1, <2>2, <2>4, Zenon
  <2>6. /\ \A d \in Clients : InSave(d)' => InSave(d)
        /\ \A f \in Fingerprints : known[c][f] # "unknown" => known'[c][f] # "unknown"
        /\ known'[c][about[c]] # "unknown"
    BY <1>a, <1>11, Zenon DEF Rename
  <2>7. ASSUME NEW f \in Fingerprints, kept'[f] = HostOf[c]
        PROVE  known'[c][f] # "unknown"
    <3>1. CASE f = about[c]
      BY <2>6, <3>1, Zenon
    <3>2. CASE f # about[c]
      <4>1. kept[f] = HostOf[c]
        BY <2>4, <2>7, <3>2, Zenon
      <4>2. known[c][f] # "unknown"
        BY <1>b, <2>1, <2>2, <4>1, Zenon
      <4>. QED  BY <2>6, <4>2, Zenon
    <3>. QED  BY <3>1, <3>2
  <2>. QED  BY <1>b, <2>1, <2>2, <2>3, <2>5, <2>6, <2>7, Zenon DEF AloneInv
<1>12. ASSUME NEW c \in Clients, WriteFails(c) \/ RenameFails(c)
       PROVE  AloneInv'
  <2>1. /\ Saving(c) /\ Settle(c, "trusted") /\ ~disturbed
        /\ UNCHANGED <<mode, entries, about, kept, raced>>
    <3>1. Saving(c) /\ GiveUp(c)
      BY <1>12, Zenon DEF WriteFails, RenameFails, Saving
    <3>. QED  BY <3>1, Zenon DEF GiveUp, history
  <2>2. "tmp" # "file"
    OBVIOUS
  <2>3. file' = file
    BY <1>9, <1>12, <2>1, <2>2, Zenon DEF WriteFails, RenameFails
  <2>. QED  BY <1>a, <1>b, <2>1, <2>3, AloneStep, Zenon
<1>13. CASE UNCHANGED vars
  BY <1>13, Zenon DEF vars, AloneInv, InSave
<1>. QED
  BY <1>1, <1>2, <1>3, <1>4, <1>5, <1>6, <1>8, <1>10, <1>11, <1>12, <1>13, Zenon
  DEF Next, User, Save

----
(* Theorems *)

THEOREM Inductive == Spec => []Inv
PROOF
<1>1. Init => Inv
  BY TypeInit, ApprovalInit, WholeInit, AskInit, AloneInit, Zenon DEF Inv
<1>2. Inv /\ [Next]_vars => Inv'
  BY TypeNext, ApprovalNext, WholeNext, AskNext, AloneNext, Zenon DEF Inv
<1>. QED  BY <1>1, <1>2, PTL DEF Spec

\* Every variable has its type (all of FingerprintTrust).
THEOREM TypeCorrect == Spec => []TypeOK
PROOF
<1>1. Inv => TypeOK
  BY DEF Inv
<1>. QED  BY <1>1, Inductive, PTL

\* However many clients share the file, whatever they load, lose and overwrite: a
\* certificate is trusted for a host only if it is configured there or a user
\* approved it for that host (cache.go:338-342, client.go:279-306).
THEOREM OnlyApproved == Spec => []TrustIsApproved
PROOF
<1>1. Inv => TrustIsApproved
  BY DEF Inv, ApprovalInv
<1>. QED  BY <1>1, Inductive, PTL

\* While no two saves overlap, the file is what the last completed save wrote,
\* through crashes and failures at any step (cache.go:377-426).
THEOREM WholeFiles == Spec => []SavesAreWhole
PROOF
<1>1. Inv => SavesAreWhole
  BY Zenon DEF Inv, WholeInv, SavesAreWhole
<1>. QED  BY <1>1, Inductive, PTL

\* No client asks twice about a certificate, and none asks about one that a saved
\* approval of an earlier client answers (fingerprint.go:127-155).
THEOREM AskedOnce == Spec => NotAskedAgain
PROOF
<1>1. Inv /\ [Next]_vars =>
         [\A c \in Clients : stage[c] = "free" /\ stage'[c] = "asking" =>
             /\ about'[c] \notin asked[c]
             /\ ~disturbed => kept[about'[c]] # HostOf[c]]_vars
  <2> SUFFICES ASSUME Inv, [Next]_vars, NEW c \in Clients,
                      stage[c] = "free", stage'[c] = "asking"
               PROVE  /\ about'[c] \notin asked[c]
                      /\ ~disturbed => kept[about'[c]] # HostOf[c]
    BY Zenon
  <2>. USE DEF Inv
  <2>1. "free" # "asking" /\ "saving" # "asking" /\ "opened" # "asking" /\ "written" # "asking"
    OBVIOUS
  <2>2. ASSUME NEW d \in Clients, NEW s, s # "asking"
        PROVE  stage' # [stage EXCEPT ![d] = s] /\ stage' # stage
    BY <2>1, <2>2, Zenon DEF TypeOK
  <2>3. PICK d \in Clients : \E f \in Fingerprints : Ask(d, f)
    BY <2>1, <2>2, Zenon DEF Next, User, Save, Load, LoadFails, Construct, Crash, Refuse,
       AcceptGeneric, Accept, Open, OpenFails, Write, WriteFails, Rename, RenameFails, GiveUp,
       Settle, vars
  <2>4. PICK f \in Fingerprints : Ask(d, f)
    BY <2>3
  <2>5. d = c
    BY <2>1, <2>4, Zenon DEF Ask, TypeOK
  <2>6. mode[c] # "off"
    BY <2>4, <2>5, SMT DEF Ask
  <2>7. about'[c] = f /\ known[c][f] = "unknown"
    BY <2>4, <2>5, Zenon DEF Ask, TypeOK
  <2>. QED  BY <2>6, <2>7, Zenon DEF AskInv, AloneInv
<1>. QED  BY <1>1, Inductive, PTL DEF Spec, NotAskedAgain
====
