---------------------------- MODULE AuthProfiles ----------------------------
(***************************************************************************)
(* The credentials that captures collect under a name (src/src/auth-profile.ts,     *)
(* SecretCollector of src/src/network-redaction.ts, finishCapture of                *)
(* src/src/network-capture.ts).                                              *)
(*                                                                         *)
(* The stop of a capture reads the profile, gives every credential it saw a          *)
(* reference, writes the profile and then its artifact, in which the references stand   *)
(* for the values.  Captures of relays on several ports share the profile, under a      *)
(* lock file.  How credentials are recognised in requests is data, and so is their     *)
(* expiry.                                                                 *)
(***************************************************************************)
EXTENDS Naturals, FiniteSets, FiniteSetsExt, SequencesExt

CONSTANTS Capture,        \* a capture each, of a relay of its own
          Source, Value,  \* where a credential is found (a header, a field), and what it is
          MaxSeen,        \* bound: credentials in one capture
          MaxFaults, MaxRemovals

VARIABLES capture,   \* every capture: how far its stop is, what it has seen, what it collected
          profile,   \* the file: the slots by the number of their reference
          handed,    \* history: the references in artifacts, with the source they are written for
          shared,    \* history: references that stood for two sources at once
          latest,    \* history: the value of a source that was stored last
          faults, removals,
          lock, at, taken   \* taken: the lock, or the profile, was removed under an owner at work

vars == <<capture, profile, handed, shared, latest, faults, removals, lock, at, taken>>

Lock == INSTANCE StoreLock WITH Holder <- Capture

\* a credential that is recognised, and what a capture finds of them, one after another
Credential == Source \X Value
Observed == UNION {[1 .. n -> Credential] : n \in 0 .. MaxSeen}
NewCapture == [pc |-> "idle", kind |-> "stop", seen |-> <<>>, slots |-> <<>>, joined |-> {}, refs |-> {}]

-----------------------------------------------------------------------------
(* SecretCollector: its slots and refsByValue, in which 0 stands for no reference; refsBySource     *)
(* follows from the sources of the slots.                                       *)

Holding(slots, value) == {r \in DOMAIN slots : slots[r].value = value}
OfSource(slots, source) == {r \in DOMAIN slots : source \in slots[r].sources}

\* constructor: the last slot that holds a value is the one it is found in
Restored(slots) ==
  [slots |-> slots, joined |-> {}, refs |-> {},
   byValue |-> [v \in Value |-> IF Holding(slots, v) = {} THEN 0 ELSE Max(Holding(slots, v))]]

\* a source that has its slot for itself keeps the reference when its value changes
Updated(c, r, value) ==
  [c EXCEPT !.slots[r].value = value,
            !.byValue = [v \in Value |-> IF v = value THEN r
                                         ELSE IF v = c.slots[r].value /\ @[v] = r THEN 0 ELSE @[v]]]

\* a source that leaves a slot it shares, or is new, joins the slot of its value or gets one
Placed(c, source, value) ==
  LET left == [r \in DOMAIN c.slots |-> [c.slots[r] EXCEPT !.sources = @ \ {source}]]
      r == c.byValue[value]
  IN  IF r # 0 THEN [c EXCEPT !.slots = [left EXCEPT ![r].sources = @ \cup {source}]]
      ELSE [c EXCEPT !.slots = Append(left, [value |-> value, sources |-> {source}]),
                     !.byValue[value] = Len(left) + 1]

Own(c, source, value) ==
  {r \in OfSource(c.slots, source) : c.slots[r].value = value \/ c.slots[r].sources = {source}}

reference(c, source, value) ==
  LET own == Own(c, source, value)
      now == IF own = {} THEN Placed(c, source, value)
             ELSE LET r == CHOOSE r \in own : TRUE
                  IN  IF c.slots[r].value = value THEN c ELSE Updated(c, r, value)
  IN  [now EXCEPT !.joined = @ \cup {r \in DOMAIN now.slots : Cardinality(now.slots[r].sources) > 1},
                  !.refs = {p \in @ : p[1] # source} \cup ({source} \X OfSource(now.slots, source))]

\* what a capture makes of the profile, one credential after another
Collected(slots, seen) == FoldLeft(LAMBDA c, o : reference(c, o[1], o[2]), Restored(slots), seen)

-----------------------------------------------------------------------------
(* finishCapture, under AuthProfile.withLock.                               *)
Faulty == faults < MaxFaults /\ faults' = faults + 1

\* stop with secrets, or authRefresh, which wants a profile
Begin(c, kind, seen) ==
  /\ capture[c].pc = "idle" /\ (kind = "refresh" => profile # <<>>)
  /\ capture' = [capture EXCEPT ![c] = [NewCapture EXCEPT !.pc = "read", !.kind = kind, !.seen = seen]]
  /\ Lock!Wants(c) /\ UNCHANGED <<profile, handed, shared, latest, faults, removals>>

LockMoves(c) == /\ Lock!Opens(c) \/ Lock!FindsItAged(c) \/ Lock!RemovesAged(c)
                /\ UNCHANGED <<capture, profile, handed, shared, latest, faults, removals>>

HasNoLock(c) == at[c] # "gone"   \* variant: the profile is read before the lock is there
HasTheLock(c) == Lock!AtWork(c)

\* readOptional, and the collector that starts from its slots
Read(c) ==
  /\ capture[c].pc = "read" /\ HasTheLock(c)
  /\ LET made == Collected(profile, capture[c].seen)
     IN  capture' = [capture EXCEPT ![c] = [@ EXCEPT !.pc = "write", !.slots = made.slots,
                                                     !.joined = made.joined, !.refs = made.refs]]
  /\ UNCHANGED <<profile, handed, shared, latest, faults, removals, lock, at, taken>>

SeesNothing(c) == capture[c].kind = "refresh" /\ capture[c].seen = <<>>

\* a refresh that observed no credential, a profile or an artifact that cannot be written: the
\* capture goes on and may be stopped again
Ends(c, pc) == capture' = [capture EXCEPT ![c] = [NewCapture EXCEPT !.pc = pc]]

Fail(c) ==
  /\ capture[c].pc \in {"write", "artifact"}
  /\ IF SeesNothing(c) THEN UNCHANGED faults ELSE Faulty
  /\ Lock!Leaves(c) /\ Ends(c, "idle") /\ UNCHANGED <<profile, handed, shared, latest, removals>>

\* the lock stays busy for half a minute
GiveUp(c) == /\ Faulty /\ Lock!GivesUp(c) /\ Ends(c, "idle")
             /\ UNCHANGED <<profile, handed, shared, latest, removals>>

\* writeProfile: the file is replaced by a rename
Write(c) ==
  /\ capture[c].pc = "write" /\ Lock!AtWork(c) /\ ~ SeesNothing(c)
  /\ profile' = capture[c].slots /\ shared' = shared \cup capture[c].joined
  /\ LET seen == capture[c].seen
         At(s) == {i \in DOMAIN seen : seen[i][1] = s}
     IN  latest' = [s \in Source |-> IF At(s) = {} THEN latest[s] ELSE seen[Max(At(s))][2]]
  /\ capture' = [capture EXCEPT ![c].pc = "artifact"]
  /\ UNCHANGED <<handed, faults, removals, lock, at, taken>>

\* the artifact of a stop is written (a refresh has none), then the lock is left
Finish(c) ==
  /\ capture[c].pc = "artifact" /\ Lock!Leaves(c) /\ Ends(c, "done")
  /\ handed' = handed \cup (IF capture[c].kind = "stop" THEN capture[c].refs ELSE {})
  /\ UNCHANGED <<profile, shared, latest, faults, removals>>

\* remove: browserrig auth delete asks for no lock
RemoveProfile ==
  /\ profile # <<>> /\ removals < MaxRemovals /\ removals' = removals + 1
  /\ profile' = <<>> /\ handed' = {} /\ shared' = {}
  /\ taken' = (taken \/ \E c \in Capture : capture[c].pc \in {"write", "artifact"})
  /\ UNCHANGED <<capture, latest, faults, lock, at>>

Crash(c) == /\ capture[c].pc \notin {"idle", "done"} /\ Faulty
            /\ Lock!Dies(c) /\ Ends(c, "done")
            /\ UNCHANGED <<profile, handed, shared, latest, removals>>

Age == /\ Lock!Ages /\ IF Lock!AtWork(lock.by) THEN Faulty ELSE UNCHANGED faults
       /\ UNCHANGED <<capture, profile, handed, shared, latest, removals>>

Init ==
  /\ capture = [c \in Capture |-> NewCapture] /\ profile = <<>>
  /\ handed = {} /\ shared = {} /\ latest = [s \in Source |-> CHOOSE v \in Value : TRUE]
  /\ faults = 0 /\ removals = 0 /\ Lock!LockInit

Next ==
  \/ RemoveProfile \/ Age
  \/ \E c \in Capture :
       \/ \E kind \in {"stop", "refresh"}, seen \in Observed : Begin(c, kind, seen)
       \/ LockMoves(c) \/ Read(c) \/ Write(c) \/ Finish(c)
       \/ Fail(c) \/ GiveUp(c) \/ Crash(c)

Spec == Init /\ [][Next]_vars

-----------------------------------------------------------------------------
\* The profile holds the credential of a source that was stored last, under one reference, and a
\* reference in an artifact keeps standing for the credential it was written for, whatever captures of
\* other relays store meanwhile.  Left out are references that stood for several sources with one
\* value, which follow those that stay when one of them changes, and what a removed lock or profile
\* breaks (SecretCollector.reference, finishCapture under withLock).
ReferencesKeepTheirCredential ==
  ~ taken =>
    /\ \A s \in Source, r \in DOMAIN profile :
         s \in profile[r].sources => profile[r].value = latest[s] /\ OfSource(profile, s) = {r}
    /\ \A p \in handed :
         p[2] \in DOMAIN profile /\ (p[2] \notin shared => profile[p[2]].sources = {p[1]})
=============================================================================
