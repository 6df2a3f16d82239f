---- MODULE FingerprintTrust ----
(*****************************************************************************)
(* Trust on first use in internal/ssl and internal/http: the fingerprint     *)
(* verifier of each client, the callback that asks its user, and the file    *)
(* with the accepted fingerprints, which clients of one or of several        *)
(* processes load and save, fail to save, and leave behind when they crash.  *)
(*                                                                           *)
(* A client without FingerprintCachePath is one whose saves all fail: it     *)
(* differs in nothing else.                                                  *)
(*****************************************************************************)
EXTENDS Integers

CONSTANTS
    Clients,
    Hosts,
    HostOf,        \* Options.Host of each client
    Fingerprints,  \* the certificates that a server may present
    Seeded,        \* Options.CachedFingerprints of each client, the true ones
    ModesOf,       \* which callbacks each client may be given
    NoHost,
    NoTemp,
    MaxStarts      \* bound: how often clients are constructed, all together

ASSUME HostAssumption == HostOf \in [Clients -> Hosts] /\ NoHost \notin Hosts
ASSUME SeededAssumption == Seeded \in [Clients -> SUBSET Fingerprints]
ASSUME StartsAssumption == MaxStarts \in Nat

\* "manual" has a ManualVerifyCallback, "generic" a VerifyFingerprintCallback,
\* "none" neither.
Modes == {"manual", "generic", "none"}
ASSUME ModesAssumption == ModesOf \in [Clients -> SUBSET Modes]

\* What the JSON of a cache says: the host each fingerprint is trusted for. Every
\* entry that is written is a trusted one. Nothing is said by an empty file, or
\* one that does not decode.
Maps == [Fingerprints -> Hosts \union {NoHost}]
Nothing == [f \in Fingerprints |-> NoHost]

ASSUME NoTempAssumption == NoTemp \notin Maps

VARIABLES
    mode,      \* "off", or the mode of the client's verifier
    entries,   \* FingerprintCache.fingerprints
    known,     \* FingerprintVerifier.cache
    stage,     \* what the handshake does that holds the verifier's lock
    about,     \* its fingerprint
    handle,    \* where the file is now that it has opened to save
    file,      \* the content of the cache file, Nothing if there is none
    tmp,       \* the content of the file with the suffix .tmp, or NoTemp
    starts,
    \* For the properties:
    approved,  \* the fingerprints the users approved, by host
    asked,     \* those the user was asked about in this life of a client
    kept,      \* the host a fingerprint was approved for in a completed save,
               \* with no approval for another host since
    saved,     \* the entries of the last completed save
    raced,     \* two saves overlapped once
    disturbed  \* two clients lived at once, or a file could not be loaded

vars == <<mode, entries, known, stage, about, handle, file, tmp, starts,
          approved, asked, kept, saved, raced, disturbed>>
client == <<mode, entries, known, stage, about, handle>>
history == <<approved, asked, kept, saved, raced, disturbed>>

TypeOK ==
    /\ mode \in [Clients -> Modes \union {"off"}]
    /\ entries \in [Clients -> Maps]
    /\ known \in [Clients -> [Fingerprints -> {"unknown", "trusted", "refused"}]]
    /\ stage \in [Clients -> {"free", "asking", "saving", "opened", "written"}]
    /\ about \in [Clients -> Fingerprints]
    /\ handle \in [Clients -> {"none", "tmp", "file", "gone"}]
    /\ file \in Maps
    /\ tmp \in Maps \union {NoTemp}
    /\ starts \in 0 .. MaxStarts
    /\ approved \in [Hosts -> SUBSET Fingerprints]
    /\ asked \in [Clients -> SUBSET Fingerprints]
    /\ kept \in Maps /\ saved \in Maps
    /\ raced \in BOOLEAN /\ disturbed \in BOOLEAN

Unknown == [f \in Fingerprints |-> "unknown"]

Init ==
    /\ mode = [c \in Clients |-> "off"]
    /\ entries = [c \in Clients |-> Nothing]
    /\ known = [c \in Clients |-> Unknown]
    /\ stage = [c \in Clients |-> "free"]
    /\ about \in [Clients -> Fingerprints]
    /\ handle = [c \in Clients |-> "none"]
    /\ file = Nothing
    /\ tmp = NoTemp
    /\ starts = 0
    /\ approved = [h \in Hosts |-> {}]
    /\ asked = [c \in Clients |-> {}]
    /\ kept = Nothing /\ saved = Nothing
    /\ raced = FALSE /\ disturbed = FALSE

----
\* A plausible slip: whatever is in the cache is trusted.
SeededFromAll(c, map) ==
    [f \in Fingerprints |->
        IF f \in Seeded[c] \/ map[f] # NoHost THEN "trusted" ELSE "unknown"]

\* NewVerifierWithCache, by GetByHost, and seedTrustedFingerprints. The port of
\* an entry is not looked at.
SeededFrom(c, map) ==
    [f \in Fingerprints |->
        IF f \in Seeded[c] \/ map[f] = HostOf[c] THEN "trusted" ELSE "unknown"]

\* buildFingerprintVerifier, with what Load left in the cache. The file is read
\* as it is at one moment: a save that is not through has not touched it.
Construct(c, map) ==
    /\ mode[c] = "off"
    /\ starts < MaxStarts
    /\ starts' = starts + 1
    /\ \E m \in ModesOf[c] : mode' = [mode EXCEPT ![c] = m]
    /\ entries' = [entries EXCEPT ![c] = map]
    /\ known' = [known EXCEPT ![c] = SeededFrom(c, map)]
    /\ asked' = [asked EXCEPT ![c] = {}]
    /\ UNCHANGED <<stage, about, handle, file, tmp, approved, kept, saved, raced>>

Load(c) ==
    /\ Construct(c, file)
    /\ disturbed' = (disturbed \/ \E d \in Clients : mode[d] # "off")

\* The error is ignored, and the file taken for empty.
LoadFails(c) ==
    /\ Construct(c, Nothing)
    /\ disturbed' = TRUE

\* The process ends or crashes, at any step of a save. A ".tmp" stays behind.
Crash(c) ==
    /\ mode[c] # "off"
    /\ mode' = [mode EXCEPT ![c] = "off"]
    /\ entries' = [entries EXCEPT ![c] = Nothing]
    /\ known' = [known EXCEPT ![c] = Unknown]
    /\ stage' = [stage EXCEPT ![c] = "free"]
    /\ handle' = [handle EXCEPT ![c] = "none"]
    /\ UNCHANGED <<about, file, tmp, starts, history>>

----
\* A handshake that gets the verifier's lock and finds a certificate it has no
\* verdict on. Those that wait for the lock, that find a verdict, and that find
\* nobody to ask (mode "none") change nothing.
Ask(c, f) ==
    /\ mode[c] \in {"manual", "generic"}
    /\ stage[c] = "free"
    /\ known[c][f] = "unknown"
    /\ stage' = [stage EXCEPT ![c] = "asking"]
    /\ about' = [about EXCEPT ![c] = f]
    /\ asked' = [asked EXCEPT ![c] = @ \union {f}]
    /\ UNCHANGED <<mode, entries, known, handle, file, tmp, starts, approved, kept, saved, raced,
                   disturbed>>

\* The verdict is remembered and the lock is free.
Settle(c, verdict) ==
    /\ known' = [known EXCEPT ![c][about[c]] = verdict]
    /\ stage' = [stage EXCEPT ![c] = "free"]

\* A plausible slip: a refusal is not remembered.
RefuseOnce(c) ==
    /\ stage[c] = "asking"
    /\ Settle(c, "unknown")
    /\ UNCHANGED <<mode, entries, about, handle, file, tmp, starts, history>>

Refuse(c) ==
    /\ stage[c] = "asking"
    /\ Settle(c, "refused")
    /\ UNCHANGED <<mode, entries, about, handle, file, tmp, starts, history>>

Approve(c) == approved' = [approved EXCEPT ![HostOf[c]] = @ \union {about[c]}]

\* What VerifyFingerprintCallback accepts is not written anywhere.
AcceptGeneric(c) ==
    /\ stage[c] = "asking"
    /\ mode[c] = "generic"
    /\ Approve(c)
    /\ Settle(c, "trusted")
    /\ UNCHANGED <<mode, entries, about, handle, file, tmp, starts, asked, kept, saved, raced,
                   disturbed>>

\* Add: one entry for each fingerprint, whichever host it had before.
Accept(c) ==
    /\ stage[c] = "asking"
    /\ mode[c] = "manual"
    /\ Approve(c)
    /\ entries' = [entries EXCEPT ![c][about[c]] = HostOf[c]]
    /\ kept' = [kept EXCEPT ![about[c]] = IF @ = HostOf[c] THEN @ ELSE NoHost]
    /\ stage' = [stage EXCEPT ![c] = "saving"]
    /\ UNCHANGED <<mode, known, about, handle, file, tmp, starts, asked, saved, raced,
                   disturbed>>

----
(* saveUnlocked *)

Saving(c) == stage[c] \in {"opened", "written"}

\* A plausible slip: the cache file itself is truncated and written.
OpenInPlace(c) ==
    /\ stage[c] = "saving"
    /\ file' = Nothing
    /\ tmp' = Nothing
    /\ handle' = [handle EXCEPT ![c] = "tmp"]
    /\ stage' = [stage EXCEPT ![c] = "opened"]
    /\ raced' = (raced \/ \E d \in Clients : Saving(d))
    /\ UNCHANGED <<mode, entries, known, about, starts, approved, asked, kept, saved, disturbed>>

\* The temporary file is created, or truncated if it is there.
Open(c) ==
    /\ stage[c] = "saving"
    /\ tmp' = Nothing
    /\ handle' = [handle EXCEPT ![c] = "tmp"]
    /\ stage' = [stage EXCEPT ![c] = "opened"]
    /\ raced' = (raced \/ \E d \in Clients : Saving(d))
    /\ UNCHANGED <<mode, entries, known, about, file, starts, approved, asked, kept, saved,
                   disturbed>>

\* One write of the whole text, at the start of whichever file the handle has by
\* now. Of two texts in one file the first value counts, which is the later one.
Put(c, map) ==
    /\ file' = IF handle[c] = "file" THEN map ELSE file
    /\ tmp' = IF handle[c] = "tmp" THEN map ELSE tmp

Write(c) ==
    /\ stage[c] = "opened"
    /\ Put(c, entries[c])
    /\ stage' = [stage EXCEPT ![c] = "written"]
    /\ UNCHANGED <<mode, entries, known, about, handle, starts, history>>

\* Where an open file is when the path it had gets another one, or none.
Moved(h) == [tmp |-> "file", file |-> "gone", gone |-> "gone", none |-> "none"][h]
Removed(h) == IF h = "tmp" THEN "gone" ELSE h

\* os.Rename, of whatever is at the temporary path.
Rename(c) ==
    /\ stage[c] = "written"
    /\ tmp # NoTemp
    /\ file' = tmp
    /\ tmp' = NoTemp
    /\ handle' = [d \in Clients |-> IF d = c THEN "none" ELSE Moved(handle[d])]
    /\ kept' = [kept EXCEPT ![about[c]] = HostOf[c]]
    /\ saved' = entries[c]
    /\ Settle(c, "trusted")
    /\ UNCHANGED <<mode, entries, about, starts, approved, asked, raced, disturbed>>

\* A step of the save fails and os.Remove clears the temporary path. The
\* fingerprint is trusted all the same.
GiveUp(c) ==
    /\ tmp' = NoTemp
    /\ handle' = [d \in Clients |-> IF d = c THEN "none" ELSE Removed(handle[d])]
    /\ Settle(c, "trusted")
    /\ UNCHANGED <<mode, entries, about, starts, history>>

\* The write fails half way.
WriteFails(c) ==
    /\ stage[c] = "opened"
    /\ file' = IF handle[c] = "file" THEN Nothing ELSE file
    /\ GiveUp(c)

\* A plausible slip: a rename that fails is tried until it succeeds.
RenameFailsAgain(c) ==
    /\ stage[c] = "written"
    /\ tmp # NoTemp
    /\ GiveUp(c)
    /\ UNCHANGED file

\* Somebody else's save has taken the temporary file away, or an I/O error.
RenameFails(c) ==
    /\ stage[c] = "written"
    /\ GiveUp(c)
    /\ UNCHANGED file

\* The directory or the temporary file cannot be created: it is left alone.
OpenFails(c) ==
    /\ stage[c] = "saving"
    /\ Settle(c, "trusted")
    /\ UNCHANGED <<mode, entries, about, handle, file, tmp, starts, history>>

----
User(c) == Refuse(c) \/ AcceptGeneric(c) \/ Accept(c)

Save(c) ==
    \/ Open(c) \/ OpenFails(c)
    \/ Write(c) \/ WriteFails(c)
    \/ Rename(c) \/ RenameFails(c)

Next ==
    \E c \in Clients :
        \/ Load(c) \/ LoadFails(c) \/ Crash(c)
        \/ \E f \in Fingerprints : Ask(c, f)
        \/ User(c)
        \/ Save(c)

\* Users answer and file operations return. Nobody has to start or stop.
Spec ==
    /\ Init
    /\ [][Next]_vars
    /\ \A c \in Clients : WF_vars(User(c)) /\ WF_vars(Save(c))

----
\* A client trusts no certificate that its configuration does not list and that no
\* user has approved for its very host, through any loads, saves in one another's
\* files, failures and crashes (client.go:279-306, cache.go:338-342).
TrustIsApproved ==
    \A c \in Clients : \A f \in Fingerprints :
        known[c][f] = "trusted" => f \in Seeded[c] \union approved[HostOf[c]]

\* While no two saves overlap, the file says what the last completed save said:
\* a crash, a failure or a load in the middle of another one never sees or leaves
\* part of it (cache.go:377-426). Two that overlap share one ".tmp".
SavesAreWhole == ~raced => file = saved

\* A user is asked once about a certificate in the life of a client; and, in
\* clients that live one after the other, never again after an approval that was
\* saved, whatever crashes and failed saves came in between (fingerprint.go:139).
NotAskedAgain ==
    [][\A c \in Clients : stage[c] = "free" /\ stage'[c] = "asking" =>
          /\ about'[c] \notin asked[c]
          /\ ~disturbed => kept[about'[c]] # HostOf[c]]_vars

\* The handshake that holds the verifier's lock lets go of it, so those that wait
\* behind it get their turn, also when the save races with others and fails.
LockIsReleased == \A c \in Clients : stage[c] # "free" ~> stage[c] = "free"

\* Trust survives restarts: an approval that was saved stays in the file, even of
\* clients whose saves never overlap (client.go:279-281). It does not: a client
\* saves all it has loaded and accepted, and drops what others saved meanwhile.
TrustPersists ==
    ~raced => \A f \in Fingerprints : kept[f] # NoHost => file[f] = kept[f]
====
