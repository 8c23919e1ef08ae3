-------------------------- MODULE HorsTraceProofs --------------------------
(***************************************************************************)
(* TLAPS proofs about HorsProfile and HorsTrace, for any processes, names, *)
(* humans and mixes of commands: what the commands do to the files, that a *)
(* home with a trace and a watcher is still such a home, that lines        *)
(* appended when nobody was about to create the trace stay in it, and what *)
(* the watcher prints of it.                                               *)
(***************************************************************************)
EXTENDS HorsTrace, WellFoundedInduction, TLAPS


(***************************************************************************)
(* Files.                                                                  *)
(***************************************************************************)
LEMMA Kinds ==
  /\ Absent.is = "absent" /\ Empty.is = "empty" /\ Garbled.is = "garbled"
  /\ \A v : Whole(v).is = "whole" /\ Whole(v).value = v
BY DEF Absent, Empty, Garbled, Whole

LEMMA FileKinds ==
  ASSUME NEW V
  PROVE  /\ Absent \in Files(V) /\ Empty \in Files(V) /\ Garbled \in Files(V)
         /\ \A v \in V : Whole(v) \in Files(V)
         /\ \A f \in Files(V) : f \in {Absent, Empty, Garbled} \/ \E v \in V : f = Whole(v)
         /\ \A f \in Files(V) : f.is = "whole" => f.value \in V
<1>1. \A f \in Files(V) : f \in {Absent, Empty, Garbled} \/ \E v \in V : f = Whole(v)
  BY DEF Files
<1>2. \A f \in Files(V) : f.is = "whole" => f.value \in V
  BY <1>1, Kinds
<1> QED
  BY <1>1, <1>2 DEF Files

LEMMA WrittenFile ==
  ASSUME NEW V, NEW f \in Files(V), NEW v \in V, NEW g \in AfterWrite(f, v)
  PROVE  g \in Files(V) /\ (g.is = "whole" => g.value = v)
BY FileKinds, Kinds DEF AfterWrite

LEMMA ReadFile ==
  ASSUME NEW V, NEW f \in Files(V), NEW x
  PROVE  Contents(f, x) \in V \cup {x}
BY FileKinds DEF Contents

LEMMA NoProfileIsNone == NoProfile \notin Profiles
BY DEF NoProfile, Profiles

LEMMA ProfileRead ==
  ASSUME ProfileTypeOK, readProfile # NoProfile
  PROVE  profile.is = "whole" /\ readProfile = profile.value /\ profile.value \in Profiles
BY FileKinds DEF readProfile, Contents, ProfileTypeOK

-----------------------------------------------------------------------------
(***************************************************************************)
(* Types, and whom profiles name.                                          *)
(***************************************************************************)
Registered == ProfileTypeOK /\ ProfileNamesRegistered /\ DraftsNameRegistered

LEMMA FreshMemory == \A p \in Procs : Fresh(p) \in Memories /\ Fresh(p).profile = NoProfile
BY DEF Fresh, Memories, Origins, NoServices, ServiceMaps

LEMMA RegisteredInit == ProfileInit => Registered
<1> SUFFICES ASSUME ProfileInit PROVE Registered
  OBVIOUS
<1> USE DEF ProfileInit
<1>1. own \in [Procs -> Memories] /\ \A p \in Procs : own[p].profile = NoProfile
  BY FreshMemory
<1>2. at \in [Procs -> Steps] /\ \A p \in Procs : at[p] \notin SharedSteps
  BY DEF Steps, Idle, SharedSteps
<1>3. CASE keystore = Absent /\ profile = Absent /\ services = Absent
           /\ book = [o \in Origins |-> NoHuman] /\ named = {}
  <2>1. ProfileTypeOK
    BY <1>1, <1>2, <1>3, FileKinds DEF ProfileTypeOK
  <2> QED
    BY <1>1, <1>2, <1>3, <2>1
       DEF Registered, ProfileNamesRegistered, DraftsNameRegistered, Absent
<1>4. ASSUME NEW h \in Humans, Connected(h) PROVE Registered
  <2> DEFINE old == [humanId |-> h, connectorAddress |-> Before, services |-> OldServices]
  <2>1. old \in Profiles /\ OldServices \in ServiceMaps /\ Before \in Origins
    BY DEF Profiles, OldServices, ServiceMaps, Origins
  <2>2. keystore \in Files(Origins) /\ profile \in Files(Profiles)
        /\ services \in Files(ServiceMaps)
    BY <1>4, <2>1, FileKinds DEF Connected
  <2>3. book \in [Origins -> Humans \cup {NoHuman}] /\ named \subseteq Origins \X Humans
    BY <1>4, <2>1 DEF Connected
  <2>4. ProfileTypeOK
    BY <1>1, <1>2, <2>2, <2>3 DEF ProfileTypeOK
  <2>5. ProfileNamesRegistered
    BY <1>4 DEF ProfileNamesRegistered, Connected, Whole
  <2>6. DraftsNameRegistered
    BY <1>1, <1>2, <1>4 DEF DraftsNameRegistered, Connected
  <2> QED
    BY <2>4, <2>5, <2>6 DEF Registered
<1> QED
  BY <1>3, <1>4

\* A step that leaves AgentBook and the files alone, and gives p a memory whose profile, if
\* any, names a human AgentBook has named.
LEMMA MemoryStep ==
  ASSUME Registered, UNCHANGED <<worldVars, target>>, NEW p \in Procs,
         NEW step \in Steps, at' = [at EXCEPT ![p] = step],
         NEW m \in Memories, own' = [own EXCEPT ![p] = m],
         m.profile # NoProfile =>
           <<m.profile.connectorAddress, m.profile.humanId>> \in named,
         step \in SharedSteps => m.profile # NoProfile,
         alone' \in Procs \cup {Nobody},
         keystore' \in Files(Origins), services' \in Files(ServiceMaps),
         profile' \in Files(Profiles), ProfileNamesRegistered'
  PROVE  Registered'
BY DEF Registered, ProfileTypeOK, DraftsNameRegistered, worldVars

LEMMA EndStep ==
  ASSUME Registered, NEW p \in Procs, NEW how \in Ended, End(p, how),
         UNCHANGED <<worldVars, target>>,
         keystore' \in Files(Origins), services' \in Files(ServiceMaps),
         profile' \in Files(Profiles), ProfileNamesRegistered'
  PROVE  Registered'
<1>1. Fresh(p) \in Memories /\ Fresh(p).profile = NoProfile
  BY FreshMemory
<1>2. how \in Steps /\ how \notin SharedSteps
  BY DEF Steps, Ended, SharedSteps
<1>3. alone' \in Procs \cup {Nobody}
  BY DEF End, historyVars, Registered, ProfileTypeOK
<1> QED
  BY <1>1, <1>2, <1>3, MemoryStep DEF End, Goto

\* A step that only moves p, perhaps at the start of a command.
LEMMA MoveStep ==
  ASSUME Registered, NEW p \in Procs, NEW step \in Steps, at' = [at EXCEPT ![p] = step],
         step \notin SharedSteps, alone' \in Procs \cup {Nobody},
         UNCHANGED <<homeVars, worldVars, target, own>>
  PROVE  Registered'
BY DEF Registered, ProfileTypeOK, DraftsNameRegistered, ProfileNamesRegistered, worldVars,
       homeVars

LEMMA BeginMoves ==
  ASSUME NEW p \in Procs, NEW step, Begin(p, step)
  PROVE  alone' \in Procs \cup {Nobody} /\ at' = [at EXCEPT ![p] = step]
BY DEF Begin, Goto

LEMMA GiveUpStep ==
  ASSUME Registered, NEW p \in Procs, GiveUp(p), UNCHANGED <<homeVars, worldVars, target>>
  PROVE  Registered'
<1>1. "failed" \in Steps \ SharedSteps
  BY DEF Steps, Ended, SharedSteps
<1>2. alone' \in Procs \cup {Nobody}
  BY DEF GiveUp, historyVars, Registered, ProfileTypeOK
<1> QED
  BY <1>1, <1>2, MoveStep DEF GiveUp, Goto

LEMMA StepNames ==
  /\ UpsertSteps \cup ConnectSteps \cup OtherSteps \subseteq Steps \ SharedSteps
  /\ Idle \cup Ended \subseteq Steps \ SharedSteps
  /\ SharedSteps \subseteq Steps
BY DEF Steps, UpsertSteps, ConnectSteps, OtherSteps, Idle, Ended, SharedSteps

\* A step that changes only p's place and memory.
LEMMA OwnStep ==
  ASSUME Registered, UNCHANGED <<homeVars, worldVars, target>>, NEW p \in Procs,
         NEW step \in Steps, at' = [at EXCEPT ![p] = step],
         NEW m \in Memories, own' = [own EXCEPT ![p] = m],
         m.profile # NoProfile =>
           <<m.profile.connectorAddress, m.profile.humanId>> \in named,
         step \in SharedSteps => m.profile # NoProfile,
         alone' \in Procs \cup {Nobody}
  PROVE  Registered'
<1>1. /\ keystore' \in Files(Origins) /\ services' \in Files(ServiceMaps)
      /\ profile' \in Files(Profiles) /\ ProfileNamesRegistered'
  BY DEF Registered, ProfileTypeOK, ProfileNamesRegistered, homeVars, worldVars
<1> QED
  BY <1>1, MemoryStep

LEMMA UpsertStepRegistered ==
  ASSUME Registered, NEW p \in Procs, BeginUpsert(p) \/ UpsertStep(p)
  PROVE  Registered'
<1> USE DEF Registered
<1>0. /\ own[p] \in Memories /\ target[p] \in Names /\ p \in Origins
      /\ own[p].profile # NoProfile =>
           <<own[p].profile.connectorAddress, own[p].profile.humanId>> \in named
  BY DEF ProfileTypeOK, DraftsNameRegistered, Origins
<1>1. CASE BeginUpsert(p)
  <2>1. alone' \in Procs \cup {Nobody} /\ at' = [at EXCEPT ![p] = "readCache"]
    BY <1>1, BeginMoves DEF BeginUpsert
  <2>2. "readCache" \in Steps \ SharedSteps
    BY StepNames DEF UpsertSteps
  <2> QED
    BY <1>1, <2>1, <2>2, MoveStep DEF BeginUpsert
<1>2. CASE ReadCache(p)
  <2> DEFINE m == [own[p] EXCEPT !.cache = [readServicesCache EXCEPT ![target[p]] = p]]
  <2>1. readServicesCache \in ServiceMaps
    BY ReadFile DEF readServicesCache, ProfileTypeOK, NoServices, ServiceMaps
  <2>2. [readServicesCache EXCEPT ![target[p]] = p] \in ServiceMaps
    BY <1>0, <2>1 DEF ServiceMaps
  <2>3. m \in Memories /\ m.profile = own[p].profile
    BY <1>0, <2>2 DEF Memories
  <2>4. "openCache" \in Steps \ SharedSteps
    BY StepNames DEF UpsertSteps
  <2>5. own' = [own EXCEPT ![p] = m] /\ at' = [at EXCEPT ![p] = "openCache"]
    BY <1>2 DEF ReadCache, Goto
  <2>6. alone' \in Procs \cup {Nobody}
    BY <1>2 DEF ReadCache, historyVars, ProfileTypeOK
  <2> QED
    BY <1>0, <1>2, <2>3, <2>4, <2>5, <2>6, OwnStep DEF ReadCache
<1>3. CASE OpenCache(p)
  <2> DEFINE m == [own[p] EXCEPT !.unlinked = FALSE]
  <2>1. m \in Memories /\ m.profile = own[p].profile
    BY <1>0 DEF Memories
  <2>2. "writeCache" \in Steps \ SharedSteps
    BY StepNames DEF UpsertSteps
  <2>3. /\ own' = [own EXCEPT ![p] = m] /\ at' = [at EXCEPT ![p] = "writeCache"]
        /\ UNCHANGED <<worldVars, target>> /\ alone' \in Procs \cup {Nobody}
    BY <1>3 DEF OpenCache, Open, Goto, historyVars, ProfileTypeOK
  <2>4. /\ keystore' \in Files(Origins) /\ services' \in Files(ServiceMaps)
        /\ profile' \in Files(Profiles) /\ ProfileNamesRegistered'
    BY <1>3, <2>3, FileKinds DEF OpenCache, ProfileTypeOK, ProfileNamesRegistered, worldVars
  <2> QED
    BY <1>0, <2>1, <2>2, <2>3, <2>4, MemoryStep
<1>4. CASE WriteCache(p)
  <2>1. Fresh(p) \in Memories /\ Fresh(p).profile = NoProfile
    BY FreshMemory
  <2>2. "readProfile" \in Steps \ SharedSteps
    BY StepNames DEF UpsertSteps
  <2>3. /\ own' = [own EXCEPT ![p] = Fresh(p)] /\ at' = [at EXCEPT ![p] = "readProfile"]
        /\ UNCHANGED <<worldVars, target>> /\ alone' \in Procs \cup {Nobody}
    BY <1>4 DEF WriteCache, Goto, historyVars, ProfileTypeOK
  <2>4. services' \in Files(ServiceMaps)
    <3>1. own[p].cache \in ServiceMaps /\ services \in Files(ServiceMaps)
      BY <1>0 DEF Memories, ProfileTypeOK
    <3> QED
      BY <1>4, <3>1, WrittenFile DEF WriteCache, Fill
  <2>5. /\ keystore' \in Files(Origins)
        /\ profile' \in Files(Profiles) /\ ProfileNamesRegistered'
    BY <1>4, <2>3 DEF WriteCache, ProfileTypeOK, ProfileNamesRegistered, worldVars
  <2> QED
    BY <2>1, <2>2, <2>3, <2>4, <2>5, MemoryStep
<1>5. CASE ReadProfile(p)
  <2>1. /\ keystore' \in Files(Origins) /\ services' \in Files(ServiceMaps)
        /\ profile' \in Files(Profiles) /\ ProfileNamesRegistered'
        /\ UNCHANGED <<homeVars, worldVars, target>>
    BY <1>5 DEF ReadProfile, ProfileTypeOK, ProfileNamesRegistered, homeVars, worldVars
  <2>2. CASE readProfile = NoProfile
    <3>1. End(p, "done") /\ "done" \in Ended
      BY <1>5, <2>2 DEF ReadProfile, Ended
    <3> QED
      BY <2>1, <3>1, EndStep
  <2>3. CASE readProfile # NoProfile
    <3> DEFINE new == [readProfile EXCEPT !.services[target[p]] = p]
               m   == [own[p] EXCEPT !.profile = new]
    <3>1. profile.is = "whole" /\ readProfile = profile.value /\ readProfile \in Profiles
      BY <2>3, ProfileRead
    <3>2. /\ new \in Profiles
          /\ new.connectorAddress = readProfile.connectorAddress
          /\ new.humanId = readProfile.humanId
      BY <1>0, <3>1 DEF Profiles, ServiceMaps
    <3>3. m \in Memories /\ m.profile = new
      BY <1>0, <3>2 DEF Memories
    <3>4. <<m.profile.connectorAddress, m.profile.humanId>> \in named
      BY <3>1, <3>2, <3>3 DEF ProfileNamesRegistered
    <3>5. "openProfile" \in Steps /\ m.profile # NoProfile
      BY <3>2, <3>3, StepNames, NoProfileIsNone DEF SharedSteps
    <3>6. /\ own' = [own EXCEPT ![p] = m] /\ at' = [at EXCEPT ![p] = "openProfile"]
          /\ alone' \in Procs \cup {Nobody}
      BY <1>5, <2>3 DEF ReadProfile, Goto, historyVars, ProfileTypeOK
    <3> QED
      BY <2>1, <3>3, <3>4, <3>5, <3>6, OwnStep
  <2> QED
    BY <2>2, <2>3
<1> QED
  BY <1>1, <1>2, <1>3, <1>4, <1>5 DEF UpsertStep

\* writeProfile writes the profile of p's memory.
LEMMA ProfileStepRegistered ==
  ASSUME Registered, NEW p \in Procs, ProfileStep(p)
  PROVE  Registered'
<1> USE DEF Registered
<1>0. /\ own[p] \in Memories
      /\ own[p].profile # NoProfile =>
           <<own[p].profile.connectorAddress, own[p].profile.humanId>> \in named
      /\ at[p] \in SharedSteps => own[p].profile # NoProfile
  BY DEF ProfileTypeOK, DraftsNameRegistered
<1>1. CASE OpenProfile(p)
  <2> DEFINE m == [own[p] EXCEPT !.unlinked = FALSE]
  <2>1. m \in Memories /\ m.profile = own[p].profile
    BY <1>0 DEF Memories
  <2>2. at[p] \in SharedSteps /\ "writeProfile" \in Steps
    BY <1>1, StepNames DEF OpenProfile, SharedSteps
  <2>3. /\ own' = [own EXCEPT ![p] = m] /\ at' = [at EXCEPT ![p] = "writeProfile"]
        /\ UNCHANGED <<worldVars, target>> /\ alone' \in Procs \cup {Nobody}
    BY <1>1 DEF OpenProfile, Open, Goto, historyVars, ProfileTypeOK
  <2>4. /\ keystore' \in Files(Origins) /\ services' \in Files(ServiceMaps)
        /\ profile' \in Files(Profiles) /\ ProfileNamesRegistered'
    BY <1>1, <2>3, FileKinds, Kinds
       DEF OpenProfile, ProfileTypeOK, ProfileNamesRegistered, worldVars
  <2> QED
    BY <1>0, <2>1, <2>2, <2>3, <2>4, MemoryStep
<1>2. CASE WriteProfile(p)
  <2>1. own[p].profile \in Profiles
    BY <1>0, <1>2 DEF WriteProfile, SharedSteps, Memories
  <2>2. profile' \in Files(Profiles) /\ ProfileNamesRegistered'
    <3>1. CASE own[p].unlinked
      BY <1>2, <3>1
         DEF WriteProfile, Fill, ProfileTypeOK, ProfileNamesRegistered, worldVars
    <3>2. CASE ~own[p].unlinked
      <4>1. profile' \in AfterWrite(profile, own[p].profile) /\ profile \in Files(Profiles)
        BY <1>2, <3>2 DEF WriteProfile, Fill, ProfileTypeOK
      <4>2. profile' \in Files(Profiles)
            /\ (profile'.is = "whole" => profile'.value = own[p].profile)
        BY <2>1, <4>1, WrittenFile
      <4> QED
        BY <1>0, <1>2, <2>1, <4>2, NoProfileIsNone
           DEF WriteProfile, ProfileNamesRegistered, worldVars
    <3> QED
      BY <3>1, <3>2
  <2>3. keystore' \in Files(Origins) /\ services' \in Files(ServiceMaps)
        /\ End(p, "done") /\ UNCHANGED <<worldVars, target>> /\ "done" \in Ended
    BY <1>2 DEF WriteProfile, ProfileTypeOK, Ended
  <2> QED
    BY <2>2, <2>3, EndStep
<1> QED
  BY <1>1, <1>2 DEF ProfileStep

LEMMA FoundStep ==
  ASSUME Registered, NEW p \in Procs, Found(p), UNCHANGED historyVars,
         UNCHANGED <<homeVars, worldVars, target>>
  PROVE  Registered'
<1> DEFINE new == ProfileOf(book[own[p].key], own[p].key)
           m   == [own[p] EXCEPT !.profile = new]
<1>1. own[p] \in Memories /\ own[p].key \in Origins
  BY DEF Registered, ProfileTypeOK, Memories
<1>2. book[own[p].key] \in Humans /\ <<own[p].key, book[own[p].key]>> \in named
  BY <1>1 DEF Found, Registered, ProfileTypeOK, DraftsNameRegistered
<1>3. /\ new \in Profiles
      /\ new.connectorAddress = own[p].key /\ new.humanId = book[own[p].key]
  BY <1>1, <1>2 DEF ProfileOf, Profiles, NoServices, ServiceMaps
<1>4. m \in Memories /\ m.profile = new
  BY <1>1, <1>3 DEF Memories
<1>5. "openProfile" \in Steps /\ m.profile # NoProfile
  BY <1>3, <1>4, StepNames, NoProfileIsNone DEF SharedSteps
<1>6. /\ own' = [own EXCEPT ![p] = m] /\ at' = [at EXCEPT ![p] = "openProfile"]
      /\ alone' \in Procs \cup {Nobody}
  BY DEF Found, Goto, historyVars, Registered, ProfileTypeOK
<1> QED
  BY <1>2, <1>3, <1>4, <1>5, <1>6, OwnStep

LEMMA ConnectStepRegistered ==
  ASSUME Registered, NEW p \in Procs,
         ConnectStep(p) \/ \E fresh \in BOOLEAN : BeginConnect(p, fresh)
  PROVE  Registered'
<1> USE DEF Registered
<1>0. /\ own[p] \in Memories
      /\ own[p].profile # NoProfile =>
           <<own[p].profile.connectorAddress, own[p].profile.humanId>> \in named
      /\ \A s \in ConnectSteps : s \in Steps \ SharedSteps
      /\ "failed" \in Ended /\ "failed" \in Steps \ SharedSteps
  BY StepNames DEF ProfileTypeOK, DraftsNameRegistered, Ended
<1>1. ASSUME NEW fresh \in BOOLEAN, BeginConnect(p, fresh) PROVE Registered'
  <2>1. CASE Begin(p, "openKeystore") /\ UNCHANGED own
    BY <1>0, <1>1, <2>1, BeginMoves, MoveStep DEF BeginConnect, ConnectSteps
  <2>2. CASE keystore.is = "whole" /\ Begin(p, "lookup")
             /\ own' = [own EXCEPT ![p].key = keystore.value]
    <3> DEFINE m == [own[p] EXCEPT !.key = keystore.value]
    <3>1. keystore.value \in Origins
      BY <2>2, FileKinds DEF ProfileTypeOK
    <3>2. m \in Memories /\ m.profile = own[p].profile
      BY <1>0, <3>1 DEF Memories
    <3>3. own' = [own EXCEPT ![p] = m]
      BY <2>2
    <3>4. alone' \in Procs \cup {Nobody} /\ at' = [at EXCEPT ![p] = "lookup"]
      BY <2>2, BeginMoves
    <3>5. "lookup" \in Steps \ SharedSteps
      BY <1>0 DEF ConnectSteps
    <3> QED
      BY <1>0, <1>1, <3>2, <3>3, <3>4, <3>5, OwnStep DEF BeginConnect
  <2>3. CASE GiveUp(p)
    BY <1>1, <2>3, GiveUpStep DEF BeginConnect
  <2> QED
    BY <1>1, <2>1, <2>2, <2>3 DEF BeginConnect
<1>2. CASE OpenKeystore(p)
  <2> DEFINE m == [own[p] EXCEPT !.unlinked = FALSE]
  <2>1. m \in Memories /\ m.profile = own[p].profile
    BY <1>0 DEF Memories
  <2>2. "writeKeystore" \in Steps \ SharedSteps
    BY <1>0 DEF ConnectSteps
  <2>3. /\ own' = [own EXCEPT ![p] = m] /\ at' = [at EXCEPT ![p] = "writeKeystore"]
        /\ UNCHANGED <<worldVars, target>> /\ alone' \in Procs \cup {Nobody}
    BY <1>2 DEF OpenKeystore, Open, Goto, historyVars, ProfileTypeOK
  <2>4. /\ keystore' \in Files(Origins) /\ services' \in Files(ServiceMaps)
        /\ profile' \in Files(Profiles) /\ ProfileNamesRegistered'
    BY <1>2, <2>3, FileKinds DEF OpenKeystore, ProfileTypeOK, ProfileNamesRegistered, worldVars
  <2> QED
    BY <1>0, <2>1, <2>2, <2>3, <2>4, MemoryStep
<1>3. CASE WriteKeystore(p)
  <2>1. keystore' \in Files(Origins)
    <3>1. own[p].key \in Origins /\ keystore \in Files(Origins)
      BY <1>0 DEF Memories, ProfileTypeOK
    <3> QED
      BY <1>3, <3>1, WrittenFile DEF WriteKeystore, Fill
  <2>2. "lookup" \in Steps \ SharedSteps
    BY <1>0 DEF ConnectSteps
  <2>3. /\ own' = [own EXCEPT ![p] = own[p]] /\ at' = [at EXCEPT ![p] = "lookup"]
        /\ UNCHANGED <<worldVars, target>> /\ alone' \in Procs \cup {Nobody}
    BY <1>3 DEF WriteKeystore, Goto, historyVars, ProfileTypeOK
  <2>4. /\ services' \in Files(ServiceMaps)
        /\ profile' \in Files(Profiles) /\ ProfileNamesRegistered'
    BY <1>3, <2>3 DEF WriteKeystore, ProfileTypeOK, ProfileNamesRegistered, worldVars
  <2> QED
    BY <1>0, <2>1, <2>2, <2>3, <2>4, MemoryStep
<1>4. ASSUME UNCHANGED <<homeVars, worldVars, target>>, End(p, "failed") PROVE Registered'
  <2>1. /\ keystore' \in Files(Origins) /\ services' \in Files(ServiceMaps)
        /\ profile' \in Files(Profiles) /\ ProfileNamesRegistered'
    BY <1>4 DEF ProfileTypeOK, ProfileNamesRegistered, homeVars, worldVars
  <2> QED
    BY <1>0, <1>4, <2>1, EndStep
<1>5. ASSUME UNCHANGED <<homeVars, worldVars, target, own, historyVars>>,
             NEW step \in ConnectSteps, Goto(p, step)
      PROVE  Registered'
  BY <1>0, <1>5, MoveStep DEF Goto, historyVars, ProfileTypeOK
<1>6. CASE Lookup(p)
  BY <1>4, <1>5, <1>6, FoundStep DEF Lookup, ConnectSteps
<1>7. CASE Register(p)
  BY <1>4, <1>5, <1>7 DEF Register, ConnectSteps
<1>8. CASE Poll(p)
  BY <1>4, <1>8, FoundStep DEF Poll
<1> QED
  BY <1>1, <1>2, <1>3, <1>6, <1>7, <1>8 DEF ConnectStep

LEMMA MarkedMemory ==
  ASSUME NEW m \in Memories, NEW b \in BOOLEAN
  PROVE  /\ [m EXCEPT !.unlinked = b] \in Memories
         /\ [m EXCEPT !.unlinked = b].profile = m.profile
BY DEF Memories

LEMMA OtherStepRegistered ==
  ASSUME Registered, NEW p \in Procs,
         \/ BeginCall(p) \/ EndCall(p) \/ Kill(p)
         \/ BeginDisconnect(p) \/ EndDisconnect(p)
         \/ \E f \in HomeFiles : Unlink(p, f)
  PROVE  Registered'
<1> USE DEF Registered
<1>0. /\ own[p] \in Memories
      /\ own[p].profile # NoProfile =>
           <<own[p].profile.connectorAddress, own[p].profile.humanId>> \in named
      /\ \A s \in OtherSteps : s \in Steps \ SharedSteps
      /\ "failed" \in Ended /\ "done" \in Ended
  BY StepNames DEF ProfileTypeOK, DraftsNameRegistered, Ended
<1>1. ASSUME UNCHANGED <<homeVars, worldVars, target>>, NEW how \in Ended, End(p, how)
      PROVE  Registered'
  <2>1. /\ keystore' \in Files(Origins) /\ services' \in Files(ServiceMaps)
        /\ profile' \in Files(Profiles) /\ ProfileNamesRegistered'
    BY <1>1 DEF ProfileTypeOK, ProfileNamesRegistered, homeVars, worldVars
  <2> QED
    BY <1>1, <2>1, EndStep
<1>2. CASE EndCall(p) \/ Kill(p) \/ EndDisconnect(p)
  BY <1>0, <1>1, <1>2 DEF EndCall, Kill, EndDisconnect
<1>3. CASE BeginCall(p)
  <2>1. CASE Begin(p, "calling") /\ UNCHANGED own
    BY <1>0, <1>3, <2>1, BeginMoves, MoveStep DEF BeginCall, OtherSteps
  <2>2. CASE GiveUp(p)
    BY <1>3, <2>2, GiveUpStep DEF BeginCall
  <2> QED
    BY <1>3, <2>1, <2>2 DEF BeginCall
<1>4. CASE BeginDisconnect(p)
  <2> DEFINE m == [own[p] EXCEPT !.todo = HomeFiles]
  <2>1. m \in Memories /\ m.profile = own[p].profile
    BY <1>0 DEF Memories
  <2>2. own' = [own EXCEPT ![p] = m]
    BY <1>4 DEF BeginDisconnect
  <2>3. alone' \in Procs \cup {Nobody} /\ at' = [at EXCEPT ![p] = "removing"]
    BY <1>4, BeginMoves DEF BeginDisconnect
  <2>4. "removing" \in Steps \ SharedSteps
    BY <1>0 DEF OtherSteps
  <2> QED
    BY <1>0, <1>4, <2>1, <2>2, <2>3, <2>4, OwnStep DEF BeginDisconnect
<1>5. ASSUME NEW f \in HomeFiles, Unlink(p, f) PROVE Registered'
  <2>1. /\ keystore' \in Files(Origins) /\ services' \in Files(ServiceMaps)
        /\ profile' \in Files(Profiles) /\ ProfileNamesRegistered'
    BY <1>5, FileKinds, Kinds
       DEF Unlink, ProfileTypeOK, ProfileNamesRegistered, worldVars
  <2>2. ASSUME NEW q \in Procs
        PROVE  own'[q] \in Memories /\ own'[q].profile = own[q].profile
    <3>1. own[q] \in Memories
      BY DEF ProfileTypeOK
    <3>2. CASE q = p
      BY <1>5, <3>1, <3>2 DEF Unlink, Memories
    <3>3. CASE q # p
      <4>1. own'[q] = [own[q] EXCEPT !.unlinked = @ \/ OpenedBy(q) = f]
        BY <1>5, <3>3 DEF Unlink
      <4>2. (own[q].unlinked \/ OpenedBy(q) = f) \in BOOLEAN
        OBVIOUS
      <4> QED
        BY <3>1, <4>1, <4>2, MarkedMemory
    <3> QED
      BY <3>2, <3>3
  <2>3. own' \in [Procs -> Memories]
    BY <1>5, <2>2 DEF Unlink
  <2>4. UNCHANGED <<book, named, mix, at, target, alone>>
    BY <1>5 DEF Unlink, worldVars, historyVars
  <2>5. ProfileTypeOK'
    BY <2>1, <2>3, <2>4 DEF ProfileTypeOK
  <2>6. DraftsNameRegistered'
    BY <2>2, <2>4 DEF DraftsNameRegistered
  <2> QED
    BY <2>1, <2>5, <2>6
<1> QED
  BY <1>2, <1>3, <1>4, <1>5

LEMMA AgentBookRegistered ==
  ASSUME Registered, AgentBook PROVE Registered'
<1> SUFFICES ASSUME NEW k \in Origins, NEW h \in Humans \cup {NoHuman}, AgentBookNames(k, h)
             PROVE  Registered'
  BY DEF AgentBook
<1> USE DEF Registered, AgentBookNames
<1>1. named \subseteq named' /\ named' \subseteq Origins \X Humans
  BY DEF ProfileTypeOK
<1>2. ProfileTypeOK'
  BY <1>1 DEF ProfileTypeOK, homeVars, historyVars
<1>3. ProfileNamesRegistered'
  BY <1>1 DEF ProfileNamesRegistered, homeVars
<1>4. DraftsNameRegistered'
  <2>1. \A o \in Origins : book'[o] # NoHuman => <<o, book'[o]>> \in named'
    BY DEF DraftsNameRegistered, ProfileTypeOK
  <2> QED
    BY <1>1, <2>1 DEF DraftsNameRegistered
<1> QED
  BY <1>2, <1>3, <1>4

LEMMA RegisteredStutters ==
  ASSUME Registered, UNCHANGED profileVars PROVE Registered'
BY DEF Registered, ProfileTypeOK, ProfileNamesRegistered, DraftsNameRegistered, profileVars,
       homeVars, worldVars, historyVars

LEMMA RegisteredStep == Registered /\ [ProfileNext]_profileVars => Registered'
BY UpsertStepRegistered, ConnectStepRegistered, ProfileStepRegistered, OtherStepRegistered,
   AgentBookRegistered, RegisteredStutters
   DEF ProfileNext, BeginCommand

-----------------------------------------------------------------------------
(***************************************************************************)
(* What a command does that has the home to itself.                        *)
(***************************************************************************)
LEMMA HomeFields ==
  /\ Home.key = Contents(keystore, NoEntry)
  /\ Home.profile = Contents(profile, NoProfile)
  /\ Home.services = Contents(services, NoServices)
BY DEF Home, readProfile, readServicesCache

LEMMA HomeType == ASSUME ProfileTypeOK PROVE Home \in Homes
BY ReadFile
   DEF ProfileTypeOK, Home, Homes, readProfile, readServicesCache, NoServices, ServiceMaps

LEMMA ContentsOf ==
  ASSUME NEW x
  PROVE  /\ Contents(Absent, x) = x /\ Contents(Empty, x) = x
         /\ \A v : Contents(Whole(v), x) = v
BY Kinds DEF Contents

LEMMA UpsertedFields ==
  ASSUME NEW p \in Procs, target[p] \in Names, before \in Homes
  PROVE  /\ Upserted(p).key = before.key
         /\ Upserted(p).services = [before.services EXCEPT ![target[p]] = p]
         /\ Upserted(p).profile =
              IF before.profile = NoProfile THEN NoProfile
              ELSE [before.profile EXCEPT !.services[target[p]] = p]
         /\ Upserted(p) = [key |-> Upserted(p).key, profile |-> Upserted(p).profile,
                           services |-> Upserted(p).services]
BY DEF Upserted

LEMMA HomeIsUpserted ==
  ASSUME NEW p \in Procs, target[p] \in Names, before \in Homes,
         Home.key = before.key, Home.profile = Upserted(p).profile,
         Home.services = Upserted(p).services
  PROVE  Home = Upserted(p)
BY UpsertedFields DEF Home

AloneInv == Registered /\ AloneKnows

LEMMA AloneStutters ==
  ASSUME AloneKnows, UNCHANGED <<homeVars, at, target, own, historyVars>> PROVE AloneKnows'
BY DEF AloneKnows, Progress, Active, Upserted, Home, readProfile, readServicesCache, homeVars,
       historyVars

\* A command that starts is alone, or nobody is.
LEMMA BeginAlone ==
  ASSUME AloneInv, NEW p \in Procs, NEW step \in Steps \ (Idle \cup Ended), Begin(p, step),
         UNCHANGED homeVars, target' = target,
         step \in {"readCache", "openKeystore", "calling"}
           \/ (step = "lookup" /\ own'[p].key = Home.key)
           \/ (step = "removing" /\ own'[p].todo = HomeFiles)
  PROVE  AloneKnows'
<1>1. CASE \E q \in Procs : Active(q)
  BY <1>1, ProfileAssumption DEF Begin, AloneKnows
<1>2. CASE ~ \E q \in Procs : Active(q)
  <2>1. alone' = p /\ before' = Home /\ Home' = Home
    BY <1>2 DEF Begin, homeVars, Home, readProfile, readServicesCache
  <2>2. \A q \in Procs : Active(q)' <=> q = p
    BY <1>2 DEF Begin, Goto, Active, AloneInv, Registered, ProfileTypeOK
  <2>3. before' \in Homes
    BY <2>1, HomeType DEF AloneInv, Registered
  <2>4. at'[p] = step
    BY DEF Begin, Goto, AloneInv, Registered, ProfileTypeOK
  <2>5. Progress(p)'
    BY <2>1, <2>4 DEF Progress, HomeFiles
  <2> QED
    BY <2>1, <2>2, <2>3, <2>5 DEF AloneKnows
<1> QED
  BY <1>1, <1>2

\* A command that ends is the one that was alone, or nobody was.
LEMMA EndAlone ==
  ASSUME AloneInv, NEW p \in Procs, Active(p), NEW how \in Ended, End(p, how)
  PROVE  AloneKnows'
<1>1. alone \in {p, Nobody}
  BY DEF AloneInv, AloneKnows, Registered, ProfileTypeOK
<1>2. alone' = Nobody
  BY <1>1 DEF End, historyVars
<1> QED
  BY <1>2 DEF AloneKnows

\* A command that gives up before it starts leaves the one that runs as it is.
LEMMA GiveUpAlone ==
  ASSUME AloneInv, NEW p \in Procs, GiveUp(p), UNCHANGED homeVars, target' = target
  PROVE  AloneKnows'
<1> SUFFICES ASSUME alone # Nobody PROVE AloneKnows'
  BY DEF AloneKnows, GiveUp, historyVars
<1>1. ~Active(p) /\ ~Active(p)' /\ p # alone
  BY DEF AloneInv, AloneKnows, Registered, ProfileTypeOK, GiveUp, Goto, Active, Idle, Ended
<1>2. \A q \in Procs : q # p => at'[q] = at[q]
  BY DEF AloneInv, Registered, ProfileTypeOK, GiveUp, Goto
<1>3. alone \in Procs /\ at'[alone] = at[alone]
  BY <1>1, <1>2 DEF AloneInv, Registered, ProfileTypeOK
<1>4. Progress(alone)'
  BY <1>3 DEF AloneInv, AloneKnows, Progress, Upserted, GiveUp, Home, readProfile,
              readServicesCache, homeVars, historyVars
<1>5. \A q \in Procs : Active(q)' <=> q = alone'
  BY <1>1, <1>2 DEF AloneInv, AloneKnows, Active, GiveUp, historyVars
<1> QED
  BY <1>4, <1>5 DEF AloneInv, AloneKnows, GiveUp, historyVars

\* It suffices to follow the command that is alone.
LEMMA WalkAlone ==
  ASSUME AloneInv, NEW p \in Procs, Active(p), NEW step \in Steps \ (Idle \cup Ended),
         at' = [at EXCEPT ![p] = step], UNCHANGED historyVars,
         alone = p => Progress(p)'
  PROVE  AloneKnows'
<1> SUFFICES ASSUME alone # Nobody PROVE AloneKnows'
  BY DEF AloneKnows, historyVars
<1>1. alone = p
  BY DEF AloneInv, AloneKnows
<1>2. \A q \in Procs : Active(q)' <=> q = p
  BY <1>1 DEF AloneInv, AloneKnows, Active, Registered, ProfileTypeOK
<1> QED
  BY <1>1, <1>2 DEF AloneInv, AloneKnows, historyVars

\* What is known of a command that is alone.
LEMMA AloneFacts ==
  ASSUME AloneInv, NEW p \in Procs
  PROVE  /\ own[p] \in Memories /\ target[p] \in Names
         /\ services = Empty => Home.services = NoServices
         /\ alone = p => before \in Homes /\ Progress(p)
         /\ UNCHANGED <<historyVars, target>> => Upserted(p)' = Upserted(p)
         /\ UNCHANGED homeVars => Home' = Home
<1>1. services = Empty => Home.services = NoServices
  BY HomeFields, ContentsOf
<1>2. own[p] \in Memories /\ target[p] \in Names
  BY DEF AloneInv, Registered, ProfileTypeOK
<1>3. alone = p => before \in Homes /\ Progress(p)
  BY ProfileAssumption DEF AloneInv, AloneKnows
<1>4. UNCHANGED <<historyVars, target>> => Upserted(p)' = Upserted(p)
  BY DEF Upserted, historyVars
<1>5. UNCHANGED homeVars => Home' = Home
  BY DEF Home, readProfile, readServicesCache, homeVars
<1> QED
  BY <1>1, <1>2, <1>3, <1>4, <1>5

LEMMA ActiveSteps ==
  /\ UpsertSteps \cup ConnectSteps \cup SharedSteps \cup OtherSteps \subseteq Steps \ (Idle \cup Ended)
  /\ \A p \in Procs :
       at[p] \in UpsertSteps \cup ConnectSteps \cup SharedSteps \cup OtherSteps => Active(p)
BY DEF Steps, UpsertSteps, ConnectSteps, SharedSteps, OtherSteps, Idle, Ended, Active

LEMMA UpsertStepAlone ==
  ASSUME AloneInv, NEW p \in Procs, UpsertStep(p)
  PROVE  AloneKnows'
<1> USE DEF homeVars, worldVars
<1>0. /\ at \in [Procs -> Steps] /\ own \in [Procs -> Memories]
      /\ Active(p)
      /\ target' = target
      /\ \A s \in {"openCache", "writeCache", "readProfile", "openProfile"} :
           s \in Steps \ (Idle \cup Ended)
  BY ActiveSteps
     DEF AloneInv, Registered, ProfileTypeOK, UpsertStep, ReadCache, OpenCache, WriteCache,
         ReadProfile, UpsertSteps, SharedSteps, Open
<1>1. CASE ReadCache(p)
  <2>1. ASSUME alone = p PROVE Progress(p)'
    <3>1. at'[p] = "openCache" /\ Home' = before /\ before' = before /\ Upserted(p)' = Upserted(p)
      BY <1>0, <1>1, <2>1, AloneFacts DEF ReadCache, Goto, Progress, historyVars
    <3>2. own'[p].cache = [Home.services EXCEPT ![target[p]] = p]
      BY <1>0, <1>1, HomeFields DEF ReadCache, Memories, readServicesCache
    <3>3. own'[p].cache = Upserted(p).services
      BY <1>1, <2>1, <3>2, AloneFacts, UpsertedFields DEF Progress, ReadCache
    <3> QED
      BY <3>1, <3>3 DEF Progress
  <2> QED
    BY <1>0, <1>1, <2>1, WalkAlone DEF ReadCache, Goto
<1>2. CASE OpenCache(p)
  <2>1. ASSUME alone = p PROVE Progress(p)'
    <3>1. /\ at'[p] = "writeCache" /\ before' = before /\ Upserted(p)' = Upserted(p)
          /\ services' = Empty
      BY <1>0, <1>2, AloneFacts DEF OpenCache, Open, Goto, historyVars
    <3>2. Home'.key = before.key /\ Home'.profile = before.profile
      BY <1>0, <1>2, <2>1, AloneFacts, HomeFields DEF OpenCache, Progress, Home, readProfile
    <3>3. own'[p].cache = own[p].cache /\ ~own'[p].unlinked
      BY <1>0, <1>2 DEF OpenCache, Open, Memories
    <3>4. own[p].cache = Upserted(p).services
      BY <1>2, <2>1, AloneFacts DEF Progress, OpenCache
    <3> QED
      BY <3>1, <3>2, <3>3, <3>4 DEF Progress
  <2> QED
    BY <1>0, <1>2, <2>1, WalkAlone DEF OpenCache, Open, Goto
<1>3. CASE WriteCache(p)
  <2>1. ASSUME alone = p PROVE Progress(p)'
    <3>1. /\ at'[p] = "readProfile" /\ before' = before /\ Upserted(p)' = Upserted(p)
      BY <1>0, <1>3, AloneFacts DEF WriteCache, Goto, historyVars
    <3>2. Home'.key = before.key /\ Home'.profile = before.profile
      BY <1>0, <1>3, <2>1, AloneFacts, HomeFields DEF WriteCache, Progress, Home, readProfile
    <3>3. services' = Whole(own[p].cache)
      BY <1>3, <2>1, AloneFacts DEF WriteCache, Fill, AfterWrite, Progress
    <3>4. Home'.services = Upserted(p).services
      BY <1>3, <2>1, <3>3, AloneFacts, ContentsOf DEF Home, readServicesCache, Progress, WriteCache
    <3> QED
      BY <3>1, <3>2, <3>4 DEF Progress
  <2> QED
    BY <1>0, <1>3, <2>1, WalkAlone DEF WriteCache, Goto
<1>4. CASE ReadProfile(p)
  <2>1. CASE readProfile = NoProfile
    BY <1>0, <1>4, <2>1, EndAlone DEF ReadProfile, Ended
  <2>2. CASE readProfile # NoProfile
    <3>0. /\ at' = [at EXCEPT ![p] = "openProfile"]
          /\ own' = [own EXCEPT ![p].profile = [readProfile EXCEPT !.services[target[p]] = p]]
          /\ UNCHANGED <<homeVars, target, historyVars>> /\ at[p] = "readProfile"
      BY <1>4, <2>2 DEF ReadProfile, Goto
    <3>1. ASSUME alone = p PROVE Progress(p)'
      <4>1. /\ at'[p] = "openProfile" /\ before' = before /\ Upserted(p)' = Upserted(p)
            /\ Home' = Home /\ before \in Homes
        BY <1>0, <3>0, <3>1, AloneFacts DEF historyVars
      <4>2. /\ Home.key = before.key /\ Home.services = Upserted(p).services
            /\ readProfile = before.profile
        BY <3>0, <3>1, AloneFacts, HomeFields DEF Progress, readProfile
      <4>3. own'[p].profile = [readProfile EXCEPT !.services[target[p]] = p]
        BY <1>0, <3>0 DEF Memories
      <4>4. own'[p].profile = Upserted(p).profile
        BY <2>2, <4>1, <4>2, <4>3, AloneFacts, UpsertedFields
      <4> QED
        BY <4>1, <4>2, <4>4 DEF Progress
    <3> QED
      BY <1>0, <3>0, <3>1, WalkAlone
  <2> QED
    BY <2>1, <2>2
<1> QED
  BY <1>1, <1>2, <1>3, <1>4 DEF UpsertStep

LEMMA ProfileStepAlone ==
  ASSUME AloneInv, NEW p \in Procs, ProfileStep(p)
  PROVE  AloneKnows'
<1> USE DEF homeVars, worldVars
<1>0. /\ at \in [Procs -> Steps] /\ own \in [Procs -> Memories]
      /\ Active(p) /\ target' = target
      /\ "writeProfile" \in Steps \ (Idle \cup Ended)
  BY ActiveSteps
     DEF AloneInv, Registered, ProfileTypeOK, ProfileStep, OpenProfile, WriteProfile,
         SharedSteps, Open
<1>1. CASE OpenProfile(p)
  <2>1. ASSUME alone = p PROVE Progress(p)'
    <3>1. /\ at'[p] = "writeProfile" /\ before' = before /\ Upserted(p)' = Upserted(p)
          /\ profile' = Empty
      BY <1>0, <1>1, AloneFacts DEF OpenProfile, Open, Goto, historyVars
    <3>2. Home'.key = Home.key /\ Home'.services = Home.services
      BY <1>1, HomeFields DEF OpenProfile, Home, readServicesCache
    <3>3. own'[p].profile = own[p].profile /\ ~own'[p].unlinked
      BY <1>0, <1>1 DEF OpenProfile, Open, Memories
    <3>4. \/ /\ Home.key = before.key
             /\ Home.services = Upserted(p).services
             /\ own[p].profile = Upserted(p).profile
          \/ /\ Home.key # NoEntry
             /\ Home.services = before.services
             /\ own[p].profile.connectorAddress = Home.key
      BY <1>1, <2>1, AloneFacts DEF Progress, OpenProfile
    <3> QED
      BY <3>1, <3>2, <3>3, <3>4 DEF Progress
  <2> QED
    BY <1>0, <1>1, <2>1, WalkAlone DEF OpenProfile, Open, Goto
<1>2. CASE WriteProfile(p)
  BY <1>0, <1>2, EndAlone DEF WriteProfile, Ended
<1> QED
  BY <1>1, <1>2 DEF ProfileStep

\* A lookup that finds a human: the profile is for the key of the keystore.
LEMMA FoundAlone ==
  ASSUME AloneInv, NEW p \in Procs, at[p] \in {"lookup", "poll"}, Found(p),
         UNCHANGED <<homeVars, target, historyVars>>
  PROVE  AloneKnows'
<1>0. /\ at \in [Procs -> Steps] /\ own \in [Procs -> Memories]
      /\ Active(p) /\ own[p].key \in Origins
      /\ "openProfile" \in Steps \ (Idle \cup Ended)
  BY ActiveSteps DEF AloneInv, Registered, ProfileTypeOK, ConnectSteps, SharedSteps, Memories
<1>1. ASSUME alone = p PROVE Progress(p)'
  <2>1. /\ at'[p] = "openProfile" /\ before' = before /\ Upserted(p)' = Upserted(p)
        /\ Home' = Home
    BY <1>0, AloneFacts DEF Found, Goto, historyVars
  <2>2. Home.key = own[p].key /\ Home.services = before.services
    BY <1>1, AloneFacts DEF Progress
  <2>3. own'[p].profile.connectorAddress = own[p].key
    BY <1>0 DEF Found, ProfileOf, Memories
  <2>4. Home.key # NoEntry
    BY <1>0, <2>2, ProfileAssumption
  <2> QED
    BY <2>1, <2>2, <2>3, <2>4 DEF Progress
<1> QED
  BY <1>0, <1>1, WalkAlone DEF Found, Goto

LEMMA ConnectStepAlone ==
  ASSUME AloneInv, NEW p \in Procs, ConnectStep(p)
  PROVE  AloneKnows'
<1> USE DEF homeVars, worldVars
<1>0. /\ at \in [Procs -> Steps] /\ own \in [Procs -> Memories]
      /\ Active(p) /\ target' = target
      /\ \A s \in {"writeKeystore", "lookup", "register", "poll"} :
           s \in Steps \ (Idle \cup Ended)
  BY ActiveSteps
     DEF AloneInv, Registered, ProfileTypeOK, ConnectStep, OpenKeystore, WriteKeystore, Lookup,
         Register, Poll, ConnectSteps, Open
<1>1. CASE OpenKeystore(p)
  <2>1. ASSUME alone = p PROVE Progress(p)'
    <3>1. /\ at'[p] = "writeKeystore" /\ before' = before /\ keystore' = Empty
      BY <1>0, <1>1 DEF OpenKeystore, Open, Goto, historyVars
    <3>2. Home'.services = before.services
      BY <1>1, <2>1, AloneFacts, HomeFields DEF OpenKeystore, Progress, Home, readServicesCache
    <3>3. ~own'[p].unlinked
      BY <1>0, <1>1 DEF OpenKeystore, Open, Memories
    <3> QED
      BY <3>1, <3>2, <3>3 DEF Progress
  <2> QED
    BY <1>0, <1>1, <2>1, WalkAlone DEF OpenKeystore, Open, Goto
<1>2. CASE WriteKeystore(p)
  <2>1. ASSUME alone = p PROVE Progress(p)'
    <3>1. /\ at'[p] = "lookup" /\ before' = before /\ own'[p] = own[p]
      BY <1>0, <1>2 DEF WriteKeystore, Goto, historyVars
    <3>2. Home'.services = before.services
      BY <1>2, <2>1, AloneFacts, HomeFields DEF WriteKeystore, Progress, Home, readServicesCache
    <3>3. keystore' = Whole(own[p].key)
      BY <1>2, <2>1, AloneFacts DEF WriteKeystore, Fill, AfterWrite, Progress
    <3>4. Home'.key = own[p].key
      BY <3>3, ContentsOf DEF Home
    <3> QED
      BY <3>1, <3>2, <3>4 DEF Progress
  <2> QED
    BY <1>0, <1>2, <2>1, WalkAlone DEF WriteKeystore, Goto
<1>3. ASSUME at[p] \in {"lookup", "register"}, NEW step \in {"register", "poll"}, Goto(p, step),
             UNCHANGED <<homeVars, target, own, historyVars>>
      PROVE  AloneKnows'
  <2>1. ASSUME alone = p PROVE Progress(p)'
    <3>1. at'[p] = step /\ before' = before /\ own'[p] = own[p] /\ Home' = Home
      BY <1>0, <1>3, AloneFacts DEF Goto, historyVars
    <3>2. Home.services = before.services /\ Home.key = own[p].key
      BY <1>3, <2>1, AloneFacts DEF Progress
    <3> QED
      BY <1>3, <3>1, <3>2 DEF Progress
  <2> QED
    BY <1>0, <1>3, <2>1, WalkAlone DEF Goto
<1>4. "failed" \in Ended
  BY DEF Ended
<1>5. CASE Lookup(p)
  BY <1>0, <1>3, <1>4, <1>5, EndAlone, FoundAlone DEF Lookup
<1>6. CASE Register(p)
  BY <1>0, <1>3, <1>4, <1>6, EndAlone DEF Register
<1>7. CASE Poll(p)
  BY <1>0, <1>4, <1>7, EndAlone, FoundAlone DEF Poll
<1> QED
  BY <1>1, <1>2, <1>5, <1>6, <1>7 DEF ConnectStep

LEMMA OtherStepAlone ==
  ASSUME AloneInv, NEW p \in Procs,
         EndCall(p) \/ EndDisconnect(p) \/ Kill(p) \/ \E f \in HomeFiles : Unlink(p, f)
  PROVE  AloneKnows'
<1> USE DEF homeVars, worldVars
<1>1. CASE EndCall(p) \/ EndDisconnect(p) \/ Kill(p)
  BY <1>1, EndAlone, ActiveSteps DEF EndCall, EndDisconnect, Kill, Ended, OtherSteps
<1>2. ASSUME NEW f \in HomeFiles, Unlink(p, f) PROVE AloneKnows'
  <2>1. Active(p) /\ "removing" \in Steps \ (Idle \cup Ended)
    BY <1>2, ActiveSteps DEF Unlink, OtherSteps
  <2>2. at \in [Procs -> Steps] /\ own[p] \in Memories
    BY DEF AloneInv, Registered, ProfileTypeOK
  <2>3. ASSUME alone = p PROVE Progress(p)'
    <3>1. at'[p] = "removing" /\ own'[p].todo = own[p].todo \ {f}
      BY <1>2, <2>2 DEF Unlink, Memories
    <3>2. /\ "keystore" \notin own[p].todo => keystore = Absent
          /\ "profile" \notin own[p].todo => profile = Absent
          /\ "services" \notin own[p].todo => services = Absent
      BY <1>2, <2>3, AloneFacts DEF Progress, Unlink
    <3>3. /\ "keystore" \notin own'[p].todo => keystore' = Absent
          /\ "profile" \notin own'[p].todo => profile' = Absent
          /\ "services" \notin own'[p].todo => services' = Absent
      BY <1>2, <3>1, <3>2 DEF Unlink
    <3> QED
      BY <3>1, <3>3 DEF Progress
  <2>4. at' = [at EXCEPT ![p] = "removing"]
    BY <1>2, <2>2 DEF Unlink
  <2> QED
    BY <1>2, <2>1, <2>3, <2>4, WalkAlone DEF Unlink
<1> QED
  BY <1>1, <1>2

LEMMA BeginCommandAlone ==
  ASSUME AloneInv, NEW p \in Procs, BeginCommand(p)
  PROVE  AloneKnows'
<1> USE DEF homeVars, worldVars
<1>1. /\ own \in [Procs -> Memories] /\ own[p] \in Memories
      /\ \A s \in {"readCache", "openKeystore", "calling", "lookup", "removing"} :
           s \in Steps \ (Idle \cup Ended)
  BY ActiveSteps DEF AloneInv, Registered, ProfileTypeOK, UpsertSteps, ConnectSteps, OtherSteps
<1>2. CASE BeginUpsert(p)
  BY <1>1, <1>2, BeginAlone DEF BeginUpsert
<1>3. CASE BeginCall(p)
  BY <1>1, <1>3, BeginAlone, GiveUpAlone DEF BeginCall
<1>4. CASE BeginDisconnect(p)
  BY <1>1, <1>4, BeginAlone DEF BeginDisconnect, Memories
<1>5. ASSUME NEW fresh \in BOOLEAN, BeginConnect(p, fresh) PROVE AloneKnows'
  <2>1. CASE Begin(p, "openKeystore")
    BY <1>1, <1>5, <2>1, BeginAlone DEF BeginConnect
  <2>2. CASE /\ keystore.is = "whole" /\ Begin(p, "lookup")
             /\ own' = [own EXCEPT ![p].key = keystore.value]
    <3>1. own'[p].key = Home.key
      BY <1>1, <2>2, HomeFields DEF Memories, Contents
    <3> QED
      BY <1>1, <1>5, <2>2, <3>1, BeginAlone DEF BeginConnect
  <2>3. CASE GiveUp(p)
    BY <1>5, <2>3, GiveUpAlone DEF BeginConnect
  <2> QED
    BY <1>5, <2>1, <2>2, <2>3 DEF BeginConnect
<1> QED
  BY <1>2, <1>3, <1>4, <1>5 DEF BeginCommand

LEMMA AloneStep == AloneInv /\ [ProfileNext]_profileVars => AloneInv'
<1> SUFFICES ASSUME AloneInv, [ProfileNext]_profileVars PROVE AloneKnows'
  BY RegisteredStep DEF AloneInv
<1>1. CASE UNCHANGED profileVars
  BY <1>1, AloneStutters DEF AloneInv, profileVars
<1>2. CASE AgentBook
  BY <1>2, AloneStutters DEF AloneInv, AgentBook, AgentBookNames
<1>3. ASSUME NEW p \in Procs, BeginCommand(p) PROVE AloneKnows'
  BY <1>3, BeginCommandAlone
<1>4. ASSUME NEW p \in Procs, UpsertStep(p) \/ ConnectStep(p) \/ ProfileStep(p) PROVE AloneKnows'
  BY <1>4, UpsertStepAlone, ConnectStepAlone, ProfileStepAlone
<1> QED
  BY <1>1, <1>2, <1>3, <1>4, OtherStepAlone DEF ProfileNext

\* Nobody is alone in the home before a command starts.
LEMMA AloneInit == ProfileInit => AloneInv
BY RegisteredInit DEF ProfileInit, AloneInv, AloneKnows

-----------------------------------------------------------------------------
(***************************************************************************)
(* The theorems.                                                           *)
(***************************************************************************)

\* The invariant is inductive: it holds in every state the commands can leave the home in.
THEOREM ProfileInvariant == ProfileSpec => []ProfileIInv
<1>1. AloneInv => ProfileIInv
  BY DEF AloneInv, Registered, ProfileIInv
<1> QED
  BY <1>1, AloneInit, AloneStep, PTL DEF ProfileSpec

\* However many commands share a home, overwrite each other's files and are killed, a
\* profile names a human that AgentBook has named for its address.
THEOREM ProfilesNameRegistered == ProfileSpec => []ProfileNamesRegistered
<1>1. ProfileIInv => ProfileNamesRegistered
  BY DEF ProfileIInv
<1> QED
  BY <1>1, ProfileInvariant, PTL

\* The command that ends is the one that takes the step.
LEMMA StepOf ==
  ASSUME AloneInv, NEW p \in Procs, NEW q \in Procs, NEW step \in Steps \ {"done"},
         Goto(q, step), at[p] # "done"
  PROVE  at'[p] # "done"
BY DEF Goto, AloneInv, Registered, ProfileTypeOK

\* What a command that was alone has done when it ends.
Effect(p) ==
  \/ at[p] \in {"readProfile", "writeProfile"} /\ Home' = Upserted(p)
  \/ at[p] = "writeProfile" /\ ConnectedAs(Home')
  \/ at[p] = "removing" /\ Home' = EmptyHome
  \/ at[p] = "calling" /\ Home' = before

LEMMA ReadProfileEnds ==
  ASSUME AloneInv, NEW p \in Procs, alone = p, ReadProfile(p), at'[p] = "done" PROVE Effect(p)
<1>1. readProfile = NoProfile /\ Home' = Home
  BY StepNames, AloneFacts DEF ReadProfile, Goto, AloneInv, Registered, ProfileTypeOK
<1>2. Home.profile = before.profile /\ before \in Homes /\ target[p] \in Names
  BY AloneFacts DEF Progress, ReadProfile
<1>3. Home = Upserted(p)
  <2>1. Home.key = before.key /\ Home.services = Upserted(p).services
    BY AloneFacts DEF Progress, ReadProfile
  <2>2. Home.profile = Upserted(p).profile
    BY <1>1, <1>2, HomeFields, UpsertedFields DEF readProfile
  <2> QED
    BY <1>2, <2>1, <2>2, HomeIsUpserted
<1> QED
  BY <1>1, <1>3 DEF Effect, ReadProfile

LEMMA WriteProfileEnds ==
  ASSUME AloneInv, NEW p \in Procs, alone = p, WriteProfile(p) PROVE Effect(p)
<1>1. /\ own[p] \in Memories /\ target[p] \in Names /\ before \in Homes
      /\ own[p].profile # NoProfile /\ at[p] = "writeProfile"
  BY AloneFacts DEF WriteProfile, AloneInv, Registered, DraftsNameRegistered, SharedSteps
<1>2. profile' = Whole(own[p].profile)
  BY AloneFacts DEF WriteProfile, Fill, AfterWrite, Progress
<1>3. /\ Home'.key = Home.key /\ Home'.services = Home.services
      /\ Home'.profile = own[p].profile
  BY <1>2, HomeFields, ContentsOf DEF WriteProfile, Home, readServicesCache, readProfile
<1>4. CASE /\ Home.key = before.key
           /\ Home.services = Upserted(p).services
           /\ own[p].profile = Upserted(p).profile
  <2>1. Home' = [key |-> Home'.key, profile |-> Home'.profile, services |-> Home'.services]
    BY DEF Home
  <2>2. Home' = Upserted(p)
    BY <1>1, <1>3, <1>4, <2>1, UpsertedFields
  <2> QED
    BY <1>1, <2>2 DEF Effect
<1>5. CASE /\ Home.key # NoEntry
           /\ Home.services = before.services
           /\ own[p].profile.connectorAddress = Home.key
  BY <1>1, <1>3, <1>5 DEF Effect, ConnectedAs
<1> QED
  BY <1>1, <1>4, <1>5, AloneFacts DEF Progress

LEMMA EndDisconnectEnds ==
  ASSUME AloneInv, NEW p \in Procs, alone = p, EndDisconnect(p) PROVE Effect(p)
<1>1. keystore = Absent /\ profile = Absent /\ services = Absent /\ Home' = Home
  BY AloneFacts DEF EndDisconnect, Progress
<1>2. Home = EmptyHome
  BY <1>1, ContentsOf DEF Home, EmptyHome, readProfile, readServicesCache
<1> QED
  BY <1>1, <1>2 DEF Effect, EndDisconnect

LEMMA EndCallEnds ==
  ASSUME AloneInv, NEW p \in Procs, alone = p, EndCall(p) PROVE Effect(p)
BY AloneFacts DEF EndCall, Progress, Effect

\* A command that met no other from start to end has done all it should and nothing else.
THEOREM LoneCommandsTakeEffect == ProfileSpec => AloneTakesEffect
<1>1. ASSUME AloneInv, ProfileNext, NEW p \in Procs, alone = p, at[p] # "done", at'[p] = "done"
      PROVE  Effect(p)
  <2> USE <1>1
  <2>0. /\ \A s \in UpsertSteps \cup ConnectSteps \cup SharedSteps \cup OtherSteps \cup {"failed"} :
             s \in Steps \ {"done"}
        /\ Active(p)
    BY StepNames, ProfileAssumption
       DEF AloneInv, AloneKnows, Steps, UpsertSteps, ConnectSteps, SharedSteps, OtherSteps, Idle,
           Ended
  <2>1. ASSUME NEW q \in Procs, NEW step \in Steps \ {"done"}, Goto(q, step) PROVE FALSE
    BY <2>1, StepOf
  <2>2. ASSUME NEW q \in Procs, End(q, "done") PROVE q = p
    BY <2>2 DEF End, Goto, AloneInv, Registered, ProfileTypeOK
  <2>3. ASSUME NEW q \in Procs, BeginCommand(q) PROVE FALSE
    BY <2>0, <2>1, <2>3
       DEF BeginCommand, BeginUpsert, BeginConnect, BeginCall, BeginDisconnect, Begin, GiveUp,
           UpsertSteps, ConnectSteps, OtherSteps
  <2>4. ASSUME NEW q \in Procs, UpsertStep(q) PROVE Effect(p)
    <3>1. ASSUME ~ReadProfile(q) \/ q # p PROVE FALSE
      BY <2>0, <2>1, <2>2, <2>4, <3>1
         DEF UpsertStep, ReadCache, OpenCache, WriteCache, ReadProfile, Open, UpsertSteps,
             SharedSteps
    <3> QED
      BY <3>1, ReadProfileEnds
  <2>5. ASSUME NEW q \in Procs, ConnectStep(q) PROVE FALSE
    BY <2>0, <2>1, <2>5
       DEF ConnectStep, OpenKeystore, WriteKeystore, Lookup, Register, Poll, Found, Open, End,
           ConnectSteps, SharedSteps
  <2>6. ASSUME NEW q \in Procs, ProfileStep(q) PROVE Effect(p)
    <3>1. ASSUME ~WriteProfile(q) \/ q # p PROVE FALSE
      BY <2>0, <2>1, <2>2, <2>6, <3>1
         DEF ProfileStep, OpenProfile, WriteProfile, Open, SharedSteps
    <3> QED
      BY <3>1, WriteProfileEnds
  <2>7. ASSUME NEW q \in Procs, EndCall(q) \/ EndDisconnect(q) PROVE Effect(p)
    BY <2>2, <2>7, EndCallEnds, EndDisconnectEnds DEF EndCall, EndDisconnect
  <2>8. ASSUME NEW q \in Procs, Kill(q) PROVE FALSE
    BY <2>0, <2>1, <2>8 DEF Kill, End
  <2>9. ASSUME (\E q \in Procs, f \in HomeFiles : Unlink(q, f)) \/ AgentBook PROVE FALSE
    BY <2>9 DEF Unlink, AgentBook, AgentBookNames
  <2> QED
    BY <2>3, <2>4, <2>5, <2>6, <2>7, <2>8, <2>9 DEF ProfileNext
<1>2. ASSUME AloneInv, [ProfileNext]_profileVars
      PROVE  [\A p \in Procs : alone = p /\ at[p] # "done" /\ at'[p] = "done" => Effect(p)]_profileVars
  BY <1>1, <1>2
<1>3. ASSUME AloneInv, [ProfileNext]_profileVars
      PROVE  [\A p \in Procs :
                alone = p /\ at[p] # "done" /\ at'[p] = "done" =>
                  \/ at[p] \in {"readProfile", "writeProfile"} /\ Home' = Upserted(p)
                  \/ at[p] = "writeProfile" /\ ConnectedAs(Home')
                  \/ at[p] = "removing" /\ Home' = EmptyHome
                  \/ at[p] = "calling" /\ Home' = before]_profileVars
  BY <1>2, <1>3 DEF Effect
<1> QED
  BY <1>3, AloneInit, AloneStep, PTL DEF ProfileSpec, AloneTakesEffect

-----------------------------------------------------------------------------
(***************************************************************************)
(* The home with its trace.                                                *)
(***************************************************************************)
LEMMA WriterProfile == Writers => [ProfileNext]_profileVars
BY DEF Writers, CheckTrace, CreateTrace, AppendTrace, FinishCall, KillCommand, RemoveTrace,
       ProfileNext, HomeFiles

LEMMA WatchProfile == Watch => UNCHANGED profileVars
BY DEF Watch, StartWatch, Stat, Read, FirstLook, CallBack, StopWatch

\* Every step of the home is a step of its profile, or leaves it alone.
LEMMA StepsAreProfileSteps == [Next]_vars => [ProfileNext]_profileVars
BY WriterProfile, WatchProfile DEF Next, Profile, ProfileNext, vars

\* The composition implements the specification of the profile: calls, their traces and a
\* watcher add no way to write it.
THEOREM HomeImplementsProfile == Spec => ProfileSpec
BY StepsAreProfileSteps, PTL DEF Spec, ProfileSpec, Init

\* A profile names a registered human, with calls and a watcher in the same home.
THEOREM HomeNamesRegistered == Spec => []ProfileNamesRegistered
BY HomeImplementsProfile, ProfilesNameRegistered, PTL

\* A command that is alone takes effect, with calls and a watcher in the same home.
THEOREM HomeLoneCommands == Spec => AloneTakesEffect
BY HomeImplementsProfile, LoneCommandsTakeEffect, PTL

-----------------------------------------------------------------------------
(***************************************************************************)
(* The lines that stay.                                                    *)
(***************************************************************************)
\* Lines that are settled are in a file that nobody is about to create.
SettledIInv ==
  /\ tracer \in [Procs -> {"idle", "create", "append"}]
  /\ written \in [Procs -> 0..2]
  /\ \A p \in Procs : tracer[p] # "idle" => written[p] < 2
  /\ trace = Absent \/ \E s \in Seq(TraceCells) : trace = Whole(s)
  /\ settled # {} => Exists(trace) /\ \A p \in Procs : tracer[p] # "create"
  /\ KeptOnceSettled

LEMMA TextOf ==
  ASSUME trace = Absent \/ \E s \in Seq(TraceCells) : trace = Whole(s)
  PROVE  /\ TraceText \in Seq(TraceCells)
         /\ Exists(trace) => trace = Whole(TraceText)
         /\ \A s : trace' = Whole(s) => TraceText' = s
BY Kinds DEF TraceText, Contents, Exists

LEMMA SettledInit == Init => SettledIInv
BY DEF Init, SettledIInv, KeptOnceSettled

\* A step that leaves the file alone and makes nobody create one that is there.
LEMMA SettledStays ==
  ASSUME SettledIInv, UNCHANGED <<trace, settled>>,
         tracer' \in [Procs -> {"idle", "create", "append"}], written' \in [Procs -> 0..2],
         \A p \in Procs :
           /\ tracer'[p] # "idle" => written'[p] < 2
           /\ tracer'[p] = "create" => tracer[p] = "create" \/ ~Exists(trace)
  PROVE  SettledIInv'
BY DEF SettledIInv, KeptOnceSettled, TraceText

LEMMA FunctionIsSeq ==
  ASSUME NEW S, NEW n \in Nat, NEW f \in [1..n -> S]
  PROVE  f \in Seq(S) /\ Len(f) = n
OBVIOUS

LEMMA Joined ==
  ASSUME NEW S, NEW s \in Seq(S), NEW t \in Seq(S), Len(t) # 0
  PROVE  /\ s \o t \in Seq(S)
         /\ \A i \in DOMAIN s : i \in DOMAIN (s \o t) /\ (s \o t)[i] = s[i]
         /\ Len(s) + 1 \in DOMAIN (s \o t) /\ (s \o t)[Len(s) + 1] = t[1]
<1>1. Len(s) \in Nat /\ Len(t) \in Nat /\ Len(s \o t) = Len(s) + Len(t)
  OBVIOUS
<1>2. Len(s) + 1 \in 1..(Len(s) + Len(t))
  BY <1>1
<1>3. (s \o t)[Len(s) + 1] = t[1]
  BY <1>1, <1>2
<1> QED
  BY <1>1, <1>2, <1>3

LEMMA CellsOf ==
  ASSUME NEW line \in Lines
  PROVE  /\ Cells(line) \in Seq(TraceCells)
         /\ Len(Cells(line)) = line[2]
         /\ Cells(line)[1] = <<line, 1>>
<1>1. line[2] \in 1..2
  BY DEF Lines
<1>2. \A i \in 1..line[2] : Cells(line)[i] = <<line, i>> /\ <<line, i>> \in TraceCells
  BY <1>1 DEF Cells, Cell, TraceCells
<1>3. Cells(line) \in [1..line[2] -> TraceCells]
  BY <1>2 DEF Cells
<1>4. Cells(line) \in Seq(TraceCells) /\ Len(Cells(line)) = line[2]
  BY <1>1, <1>3, FunctionIsSeq
<1>5. 1 \in 1..line[2]
  BY <1>1
<1>6. Cells(line)[1] = <<line, 1>>
  BY <1>2, <1>5
<1> QED
  BY <1>4, <1>6

LEMMA AppendSettles ==
  ASSUME SettledIInv, NEW p \in Procs, AppendTrace(p)
  PROVE  SettledIInv'
<1> DEFINE line == <<p, written[p] + 1>>
<1>1. line \in Lines /\ line[2] \in 1..2
  BY DEF SettledIInv, AppendTrace, Lines
<1>2. Cells(line) \in Seq(TraceCells) /\ Len(Cells(line)) = line[2] /\ Cells(line)[1] = <<line, 1>>
  BY <1>1, CellsOf
<1>3. TraceText \in Seq(TraceCells)
  BY TextOf DEF SettledIInv
<1>4. trace' = Whole(TraceText \o Cells(line))
  BY DEF AppendTrace
<1>5. TraceText' = TraceText \o Cells(line)
  BY <1>4, TextOf DEF SettledIInv
<1>6. TraceText' \in Seq(TraceCells)
  BY <1>1, <1>2, <1>3, <1>5, Joined
<1>7. \A i \in DOMAIN TraceText : i \in DOMAIN TraceText' /\ TraceText'[i] = TraceText[i]
  BY <1>1, <1>2, <1>3, <1>5, Joined
<1>8. /\ Len(TraceText) + 1 \in DOMAIN TraceText'
      /\ TraceText'[Len(TraceText) + 1] = <<line, 1>>
  <2> HIDE DEF line
  <2>1. Len(Cells(line)) # 0
    BY <1>1, <1>2
  <2> QED
    BY <1>2, <1>3, <1>5, <2>1, Joined
<1>9. settled' \subseteq settled \cup {line}
  BY DEF AppendTrace
<1>10. KeptOnceSettled'
  BY <1>7, <1>8, <1>9 DEF KeptOnceSettled, SettledIInv
<1>11. /\ tracer' \in [Procs -> {"idle", "create", "append"}] /\ written' \in [Procs -> 0..2]
       /\ \A q \in Procs :
            /\ tracer'[q] # "idle" => written'[q] < 2
            /\ tracer'[q] = "create" => tracer[q] = "create"
  BY DEF AppendTrace, SettledIInv
<1>12. settled' # {} => \A q \in Procs : tracer[q] # "create"
  BY DEF AppendTrace, SettledIInv
<1>13. Exists(trace')
  BY <1>4, Kinds DEF Exists
<1> QED
  BY <1>4, <1>5, <1>6, <1>10, <1>11, <1>12, <1>13 DEF SettledIInv

LEMMA CreateUnsettled ==
  ASSUME SettledIInv, NEW p \in Procs, CreateTrace(p)
  PROVE  SettledIInv'
<1>1. settled = {} /\ settled' = {}
  BY DEF CreateTrace, SettledIInv
<1>2. trace' = Whole(<<>>) /\ <<>> \in Seq(TraceCells)
  BY DEF CreateTrace
<1> QED
  BY <1>1, <1>2 DEF SettledIInv, KeptOnceSettled, CreateTrace

LEMMA RemoveUnsettles ==
  ASSUME SettledIInv, NEW p \in Procs, RemoveTrace(p)
  PROVE  SettledIInv'
BY DEF SettledIInv, KeptOnceSettled, RemoveTrace, writerVars

LEMMA WritersSettled ==
  ASSUME SettledIInv, Writers PROVE SettledIInv'
<1> SUFFICES ASSUME NEW p \in Procs,
                    \/ CheckTrace(p) \/ CreateTrace(p) \/ AppendTrace(p)
                    \/ FinishCall(p) \/ KillCommand(p) \/ RemoveTrace(p)
             PROVE  SettledIInv'
  BY DEF Writers
<1>1. CASE CheckTrace(p)
  BY <1>1, SettledStays DEF CheckTrace, SettledIInv, fileVars
<1>2. CASE FinishCall(p) \/ KillCommand(p)
  BY <1>2, SettledStays DEF FinishCall, KillCommand, ForgetTracer, SettledIInv, fileVars
<1> QED
  BY <1>1, <1>2, CreateUnsettled, AppendSettles, RemoveUnsettles

LEMMA OthersSettled ==
  ASSUME SettledIInv, Watch \/ Profile \/ UNCHANGED vars PROVE SettledIInv'
<1>1. UNCHANGED <<trace, settled, tracer, written>>
  BY DEF Watch, StartWatch, Stat, Read, FirstLook, CallBack, StopWatch, Profile, vars, traceVars,
         fileVars, writerVars
<1> QED
  BY <1>1, SettledStays DEF SettledIInv

\* Whatever calls race to create the trace, and whoever watches it, a line that was appended
\* when nobody was about to create the file stays in it until hors disconnect.
THEOREM SettledLinesStay == Spec => []KeptOnceSettled
<1>1. SettledIInv /\ [Next]_vars => SettledIInv'
  BY WritersSettled, OthersSettled DEF Next
<1>2. SettledIInv => KeptOnceSettled
  BY DEF SettledIInv
<1> QED
  BY <1>1, <1>2, SettledInit, PTL DEF Spec

-----------------------------------------------------------------------------
(***************************************************************************)
(* The invariant of the home.                                              *)
(***************************************************************************)
LEMMA TraceTypeInit == Init => TraceTypeOK
<1> SUFFICES ASSUME Init PROVE TraceTypeOK
  OBVIOUS
<1>1. ~Exists(trace)
  BY Kinds DEF Init, Exists
<1>2. tracer \in [Procs -> {"idle", "create", "append"}] /\ written \in [Procs -> 0..2]
  BY DEF Init
<1> QED
  BY <1>1, <1>2 DEF Init, TraceTypeOK

\* What the cells of the file say of its type.
LEMMA CellsTyped ==
  ASSUME SettledIInv
  PROVE  /\ Exists(trace) => \A i \in DOMAIN trace.value : trace.value[i] \in TraceCells
         /\ Len(TraceText) \in Nat
<1>1. TraceText \in Seq(TraceCells) /\ (Exists(trace) => trace = Whole(TraceText))
  BY TextOf DEF SettledIInv
<1>2. Exists(trace) => trace.value = TraceText
  BY <1>1, Kinds
<1> QED
  BY <1>1, <1>2

LEMMA WritersTyped ==
  ASSUME TraceTypeOK, SettledIInv, Writers
  PROVE  /\ changed' \in BOOLEAN /\ disturbed' \in BOOLEAN /\ settled' \subseteq Lines
         /\ UNCHANGED <<watch, looks, offset, size>>
<1> SUFFICES ASSUME NEW p \in Procs,
                    \/ CheckTrace(p) \/ CreateTrace(p) \/ AppendTrace(p)
                    \/ FinishCall(p) \/ KillCommand(p) \/ RemoveTrace(p)
             PROVE  /\ changed' \in BOOLEAN /\ disturbed' \in BOOLEAN /\ settled' \subseteq Lines
                    /\ UNCHANGED <<watch, looks, offset, size>>
  BY DEF Writers
<1>1. CASE CheckTrace(p) \/ FinishCall(p) \/ KillCommand(p)
  BY <1>1 DEF CheckTrace, FinishCall, KillCommand, TraceTypeOK, fileVars, watchVars
<1>2. CASE CreateTrace(p)
  BY <1>2 DEF CreateTrace, Disturb, TraceTypeOK, Watching
<1>3. CASE AppendTrace(p)
  <2>1. written[p] + 1 \in {1, 2}
    BY <1>3 DEF AppendTrace, SettledIInv
  <2> QED
    BY <1>3, <2>1 DEF AppendTrace, TraceTypeOK, Watching, Lines, watchVars
<1>4. CASE RemoveTrace(p)
  BY <1>4 DEF RemoveTrace, Disturb, TraceTypeOK, Watching
<1> QED
  BY <1>1, <1>2, <1>3, <1>4

LEMMA WatchTyped ==
  ASSUME TraceTypeOK, SettledIInv, Watch
  PROVE  /\ watch' \in {"off", "stat", "read", "idle"} /\ looks' \in {"none", "first", "called"}
         /\ offset' \in Nat /\ size' \in Nat
         /\ watch' = "read" => offset' < size'
         /\ changed' \in BOOLEAN /\ disturbed' \in BOOLEAN /\ settled' \subseteq Lines
<1>1. Len(TraceText) \in Nat
  BY CellsTyped
<1>2. CASE StartWatch
  BY <1>1, <1>2 DEF StartWatch, TraceTypeOK, fileVars
<1>3. CASE Stat
  BY <1>1, <1>3 DEF Stat, TraceTypeOK, fileVars
<1>4. CASE Read
  BY <1>4 DEF Read, TraceTypeOK, fileVars
<1>5. CASE FirstLook
  BY <1>5 DEF FirstLook, TraceTypeOK
<1>6. CASE CallBack
  BY <1>6 DEF CallBack, TraceTypeOK
<1>7. CASE StopWatch
  BY <1>7 DEF StopWatch, TraceTypeOK
<1> QED
  BY <1>2, <1>3, <1>4, <1>5, <1>6, <1>7 DEF Watch

LEMMA TraceTypeStep ==
  ASSUME TraceTypeOK, SettledIInv, SettledIInv', [Next]_vars
  PROVE  TraceTypeOK'
<1>1. /\ Exists(trace)' => \A i \in DOMAIN trace'.value : trace'.value[i] \in TraceCells
      /\ tracer' \in [Procs -> {"idle", "create", "append"}]
      /\ written' \in [Procs -> 0..2]
  <2>1. (Exists(trace) => \A i \in DOMAIN trace.value : trace.value[i] \in TraceCells)'
    BY CellsTyped, PTL
  <2> QED
    BY <2>1 DEF SettledIInv
<1>2. CASE Writers
  BY <1>1, <1>2, WritersTyped DEF TraceTypeOK
<1>3. CASE Watch
  BY <1>1, <1>3, WatchTyped DEF TraceTypeOK
<1>4. CASE Profile \/ UNCHANGED vars
  BY <1>1, <1>4 DEF Profile, vars, traceVars, fileVars, writerVars, watchVars, TraceTypeOK
<1> QED
  BY <1>2, <1>3, <1>4 DEF Next

\* In a home that is traced and watched the invariant of the profile holds, and what the
\* watch reads next is never shorter than one byte.
THEOREM HomeInvariant == Spec => []HomeIInv
<1>1. SettledIInv /\ [Next]_vars => SettledIInv'
  BY WritersSettled, OthersSettled DEF Next
<1>2. TraceTypeOK /\ SettledIInv /\ SettledIInv' /\ [Next]_vars => TraceTypeOK'
  BY TraceTypeStep
<1>3. ProfileIInv /\ TraceTypeOK => HomeIInv
  BY DEF HomeIInv
<1> QED
  BY <1>1, <1>2, <1>3, SettledInit, TraceTypeInit, HomeImplementsProfile, ProfileInvariant, PTL
     DEF Spec


-----------------------------------------------------------------------------
(***************************************************************************)
(* What the watch prints.  Read folds Feed over the cells of a chunk; that *)
(* there is a function that does, and what it has after each cell, is      *)
(* shown by induction on the number of cells.                              *)
(***************************************************************************)

\* Induction, for a set of numbers.
LEMMA ByInduction ==
  ASSUME NEW n \in Nat, NEW Good, 0 \in Good, \A k \in 0..n : k \in Good /\ k < n => k + 1 \in Good
  PROVE  \A k \in 0..n : k \in Good
<1> DEFINE Bad == {k \in 0..n : k \notin Good}
<1>1. SUFFICES ASSUME Bad # {} PROVE FALSE
  OBVIOUS
<1>2. PICK k \in Bad : \A m \in Bad : ~(m < k)
  <2>1. Bad \subseteq Nat
    OBVIOUS
  <2> HIDE DEF Bad
  <2>2. PICK k \in Bad : \A m \in Bad : <<m, k>> \notin OpToRel(<, Nat)
    BY <1>1, <2>1, NatLessThanWellFounded, WFMin
  <2>3. \A m \in Bad : m < k => <<m, k>> \in OpToRel(<, Nat)
    BY <2>1 DEF OpToRel
  <2> QED BY <2>2, <2>3
<1>3. k \in 1..n /\ k - 1 \in 0..n /\ k - 1 < n /\ k - 1 + 1 = k /\ k - 1 < k
  OBVIOUS
<1>4. k - 1 \in Good
  BY <1>2, <1>3
<1> QED BY <1>2, <1>3, <1>4

\* What MapThenFoldSet computes with.
Feeds(c, b, k, g) ==
  g = [s \in SUBSET (1..k) |-> IF s = {} THEN b ELSE Feed(g[s \ {Max(s)}], c[Max(s)])]

LEMMA GreatestIs ==
  ASSUME NEW k \in Nat, NEW s \in SUBSET (1..k)
  PROVE  s # {} => Max(s) \in s /\ \A x \in s : x <= Max(s)
<1> SUFFICES ASSUME s # {} PROVE Max(s) \in s /\ \A x \in s : x <= Max(s)
  OBVIOUS
<1> DEFINE Good == {j \in 0..k : s \cap 1..j = {} \/ \E x \in s \cap 1..j : \A y \in s \cap 1..j : x >= y}
<1>1. 0 \in Good
  OBVIOUS
<1>2. ASSUME NEW j \in 0..k, j \in Good, j < k PROVE j + 1 \in Good
  <2>1. 1..(j + 1) = (1..j) \cup {j + 1}
    BY <1>2
  <2>2. CASE j + 1 \in s
    <3>1. j + 1 \in s \cap 1..(j + 1) /\ \A y \in s \cap 1..(j + 1) : j + 1 >= y
      BY <2>2
    <3> QED BY <1>2, <3>1
  <2>3. CASE j + 1 \notin s
    <3>1. s \cap 1..(j + 1) = s \cap 1..j
      BY <2>1, <2>3
    <3> QED BY <1>2, <3>1
  <2> QED BY <2>2, <2>3
<1>3. k \in Good
  <2> HIDE DEF Good
  <2> QED BY <1>1, <1>2, ByInduction
<1>4. s \cap 1..k = s
  OBVIOUS
<1>5. \E x \in s : \A y \in s : x >= y
  BY <1>3, <1>4
<1> QED BY <1>5 DEF Max

LEMMA FeedsExist ==
  ASSUME NEW c, NEW b, NEW n \in Nat
  PROVE  \E g : Feeds(c, b, n, g)
<1> DEFINE Good == {k \in 0..n : \E g : Feeds(c, b, k, g)}
<1>1. 0 \in Good
  <2> DEFINE g == [s \in SUBSET (1..0) |-> b]
  <2>1. SUBSET (1..0) = {{}}
    OBVIOUS
  <2>2. Feeds(c, b, 0, g)
    BY <2>1 DEF Feeds
  <2> QED BY <2>2
<1>2. ASSUME NEW k \in 0..n, k \in Good, k < n PROVE k + 1 \in Good
  <2>1. PICK g : Feeds(c, b, k, g)
    BY <1>2
  <2> DEFINE m == k + 1
             h == [s \in SUBSET (1..m) |-> IF m \in s THEN Feed(g[s \ {m}], c[m]) ELSE g[s]]
  <2>2. ASSUME NEW s \in SUBSET (1..m)
        PROVE  h[s] = IF s = {} THEN b ELSE Feed(h[s \ {Max(s)}], c[Max(s)])
    <3>1. CASE m \in s
      <4>1. Max(s) = m
        <5>1. m \in Nat /\ s # {}
          BY <3>1
        <5>2. Max(s) \in s /\ m <= Max(s)
          BY <3>1, <5>1, GreatestIs
        <5>3. Max(s) \in 1..m
          BY <5>2
        <5> QED BY <5>1, <5>2, <5>3
      <4>2. s \ {m} \in SUBSET (1..k) /\ s \ {m} \in SUBSET (1..m) /\ m \notin s \ {m}
        OBVIOUS
      <4>3. h[s \ {m}] = g[s \ {m}] /\ h[s] = Feed(g[s \ {m}], c[m])
        BY <3>1, <4>2
      <4> HIDE DEF h
      <4> QED BY <3>1, <4>1, <4>3
    <3>2. CASE m \notin s
      <4>1. s \in SUBSET (1..k) /\ s \ {Max(s)} \in SUBSET (1..k) /\ s \ {Max(s)} \in SUBSET (1..m)
            /\ m \notin s \ {Max(s)}
        <5>1. \A x \in s : x \in 1..m /\ x # m
          BY <3>2
        <5>2. \A x \in s : x \in 1..k
          BY <5>1
        <5> QED BY <3>2, <5>1, <5>2
      <4>2. h[s] = g[s] /\ h[s \ {Max(s)}] = g[s \ {Max(s)}]
        BY <3>2, <4>1
      <4>3. g[s] = IF s = {} THEN b ELSE Feed(g[s \ {Max(s)}], c[Max(s)])
        BY <2>1, <4>1 DEF Feeds
      <4> HIDE DEF h
      <4> QED BY <4>2, <4>3
    <3> QED BY <3>1, <3>2
  <2>3. Feeds(c, b, m, h)
    <3>1. h = [s \in SUBSET (1..m) |-> h[s]]
      OBVIOUS
    <3> HIDE DEF h
    <3> QED BY <2>2, <3>1 DEF Feeds
  <2> HIDE DEF h
  <2> QED BY <1>2, <2>3
<1>3. n \in Good
  <2> HIDE DEF Good
  <2> QED BY <1>1, <1>2, ByInduction
<1> QED BY <1>3

\* The fold of Read, and what it has after each cell.
Fed(b, c) == FoldLeft(Feed, b, c)

InSteps(b, c, n) ==
  \E f : /\ f[0] = b
         /\ \A j \in 0..n : j < n => f[j + 1] = Feed(f[j], c[j + 1])
         /\ Fed(b, c) = f[n]

LEMMA FedByCells ==
  ASSUME NEW c, NEW b, NEW n \in Nat, DOMAIN c = 1..n
  PROVE  InSteps(b, c, n)
<1> DEFINE g == CHOOSE g : Feeds(c, b, n, g)
           f == [j \in 0..n |-> g[1..j]]
<1>1. Fed(b, c) = g[1..n]
  BY DEF Fed, FoldLeft, MapThenFoldSet, Feeds
<1>2. Feeds(c, b, n, g)
  BY FeedsExist
<1>3. \A s \in SUBSET (1..n) : g[s] = IF s = {} THEN b ELSE Feed(g[s \ {Max(s)}], c[Max(s)])
  <2> HIDE DEF g
  <2> QED BY <1>2 DEF Feeds
<1> HIDE DEF g
<1>4. f[0] = b
  <2>1. 1..0 = {} /\ {} \in SUBSET (1..n) /\ 0 \in 0..n
    OBVIOUS
  <2> QED BY <1>3, <2>1
<1>5. ASSUME NEW j \in 0..n, j < n PROVE f[j + 1] = Feed(f[j], c[j + 1])
  <2>1. 1..(j + 1) \in SUBSET (1..n) /\ j + 1 \in 1..(j + 1) /\ (1..(j + 1)) \ {j + 1} = 1..j
        /\ j + 1 \in 0..n
    BY <1>5
  <2>2. Max(1..(j + 1)) = j + 1
    <3>1. j + 1 \in Nat /\ 1..(j + 1) \in SUBSET (1..(j + 1)) /\ 1..(j + 1) # {}
      BY <2>1
    <3>2. Max(1..(j + 1)) \in 1..(j + 1) /\ j + 1 <= Max(1..(j + 1))
      BY <2>1, <3>1, GreatestIs
    <3> QED BY <3>1, <3>2
  <2>3. g[1..(j + 1)] = Feed(g[1..j], c[j + 1])
    BY <1>3, <2>1, <2>2
  <2> QED BY <2>1, <2>3
<1>6. f[n] = g[1..n]
  OBVIOUS
<1> HIDE DEF f
<1> QED BY <1>1, <1>4, <1>5, <1>6 DEF InSteps


\* A line that is fed to an empty buffer is printed.
LEMMA LineFed ==
  ASSUME NEW line \in Lines, NEW s
  PROVE  LET told == [buffer |-> <<>>, shown |-> s]
             more == [buffer |-> <<>>, shown |-> Append(s, line)]
         IN /\ line[2] = 1 => Feed(told, Cell(line, 1)) = more
            /\ line[2] = 2 => Feed(Feed(told, Cell(line, 1)), Cell(line, 2)) = more
<1> DEFINE told == [buffer |-> <<>>, shown |-> s]
           more == [buffer |-> <<>>, shown |-> Append(s, line)]
           one == Cell(line, 1)
           two == Cell(line, 2)
<1>1. /\ one[1] = line /\ one[2] = 1 /\ two[1] = line /\ two[2] = 2
      /\ one \in TraceCells /\ two \in TraceCells
  BY DEF Cell, TraceCells
<1>2. ASSUME line[2] = 1 PROVE Feed(told, one) = more
  <2> DEFINE text == Append(<<>>, one)
  <2>1. text = <<one>> /\ Last(text) = one
    BY DEF Last
  <2>2. text = Cells(line)
    <3>1. Cells(line) = [i \in 1..1 |-> Cell(line, i)]
      BY <1>2 DEF Cells
    <3>2. Cells(line) = <<Cell(line, 1)>>
      BY <3>1
    <3> QED BY <2>1, <3>2
  <2>3. EndsLine(one)
    BY <1>1, <1>2 DEF EndsLine
  <2>4. Rendered(text) = line
    BY <1>1, <2>1, <2>2 DEF Rendered
  <2> QED BY <2>3, <2>4 DEF Feed
<1>3. ASSUME line[2] = 2 PROVE Feed(Feed(told, one), two) = more
  <2> DEFINE text == <<one, two>>
  <2>1. ~EndsLine(one) /\ EndsLine(two)
    BY <1>1, <1>3 DEF EndsLine
  <2>2. Feed(told, one) = [buffer |-> <<one>>, shown |-> s]
    BY <2>1 DEF Feed
  <2>3. Append(<<one>>, two) = text /\ Last(text) = two
    <3> DEFINE p == Append(<<one>>, two)
    <3> HIDE DEF one, two
    <3>1. p \in Seq(TraceCells) /\ Len(p) = 2 /\ p[1] = one /\ p[2] = two
      BY <1>1
    <3>2. text \in Seq(TraceCells) /\ Len(text) = 2 /\ text[1] = one /\ text[2] = two
      BY <1>1
    <3> HIDE DEF p, text
    <3>3. p = text
      BY <3>1, <3>2
    <3> QED BY <3>2, <3>3 DEF Last, p
  <2>4. text = Cells(line)
    <3>1. Cells(line) = [i \in 1..2 |-> Cell(line, i)]
      BY <1>3 DEF Cells
    <3>2. Cells(line) = <<Cell(line, 1), Cell(line, 2)>>
      BY <3>1
    <3> QED BY <3>2
  <2>5. Rendered(text) = line
    BY <1>1, <2>3, <2>4 DEF Rendered
  <2> HIDE DEF text, one, two
  <2> QED BY <2>1, <2>2, <2>3, <2>5 DEF Feed
<1> QED BY <1>2, <1>3

\* The lines since the watch began are the last of the file; end says where each ends.
Ends(end) ==
  /\ since \in Seq(Lines)
  /\ end \in [0..Len(since) -> Nat]
  /\ end[Len(since)] = Len(TraceText)
  /\ \A j \in 0..Len(since) : j < Len(since) =>
       /\ end[j + 1] = end[j] + since[j + 1][2]
       /\ \A i \in 1..since[j + 1][2] : TraceText[end[j] + i] = Cell(since[j + 1], i)

LEMMA LineOf ==
  ASSUME NEW s \in Seq(Lines), NEW j \in 0..Len(s), j < Len(s)
  PROVE  j + 1 \in 1..Len(s) /\ s[j + 1] \in Lines /\ s[j + 1][2] \in {1, 2}
<1>1. j + 1 \in 1..Len(s) /\ s[j + 1] \in Lines
  OBVIOUS
<1> QED BY <1>1 DEF Lines

LEMMA EndsGrow ==
  ASSUME NEW end, Ends(end)
  PROVE  \A k \in 0..Len(since) : \A j \in 0..Len(since) : j < k => end[j] < end[k]
<1> DEFINE n == Len(since)
           Good == {k \in 0..n : \A j \in 0..n : j < k => end[j] < end[k]}
<1>1. n \in Nat /\ since \in Seq(Lines) /\ \A j \in 0..n : end[j] \in Nat
  BY DEF Ends
<1>2. \A j \in 0..n : j < n => end[j] < end[j + 1]
  <2> SUFFICES ASSUME NEW j \in 0..n, j < n PROVE end[j] < end[j + 1]
    OBVIOUS
  <2>1. end[j + 1] = end[j] + since[j + 1][2] /\ since[j + 1][2] \in {1, 2}
    BY LineOf DEF Ends
  <2> QED BY <1>1, <2>1
<1> HIDE DEF n
<1>3. 0 \in Good
  BY <1>1
<1>4. ASSUME NEW k \in 0..n, k \in Good, k < n PROVE k + 1 \in Good
  <2> SUFFICES ASSUME NEW j \in 0..n, j < k + 1 PROVE end[j] < end[k + 1]
    BY <1>1, <1>4
  <2>1. j = k \/ j < k
    BY <1>1
  <2>2. end[k] < end[k + 1] /\ k + 1 \in 0..n
    BY <1>1, <1>2, <1>4
  <2>3. end[j] <= end[k]
    BY <1>1, <1>4, <2>1
  <2> QED BY <1>1, <2>2, <2>3
<1>5. \A k \in 0..n : k \in Good
  <2> HIDE DEF Good
  <2> QED BY <1>1, <1>3, <1>4, ByInduction
<1> QED BY <1>5 DEF n


\* Read, from the end of a line to the end of a later one, prints the lines between.
LEMMA ReadPrints ==
  ASSUME SettledIInv, NEW end, Ends(end), NEW k \in 0..Len(since), NEW m \in k..Len(since),
         offset = end[k], size = end[m]
  PROVE  Fed([buffer |-> <<>>, shown |-> SubSeq(since, 1, k)], Chunk)
           = [buffer |-> <<>>, shown |-> SubSeq(since, 1, m)]
<1> DEFINE n == Len(since)
           told(j) == [buffer |-> <<>>, shown |-> SubSeq(since, 1, j)]
           at0 == end[k]
           cells == end[m] - at0
<1>1. n \in Nat /\ since \in Seq(Lines) /\ \A j \in 0..n : end[j] \in Nat
  BY DEF Ends
<1>2. \A i \in 0..n, j \in 0..n : i <= j => end[i] <= end[j]
  BY <1>1, EndsGrow
<1>3. k \in 0..n /\ m \in 0..n /\ n \in 0..n /\ k <= m
  BY <1>1
<1>4. at0 \in Nat /\ cells \in Nat /\ at0 + cells = end[m] /\ end[m] <= Len(TraceText)
  <2>1. end[k] <= end[m] /\ end[m] <= end[n] /\ end[n] = Len(TraceText)
    BY <1>1, <1>2, <1>3 DEF Ends
  <2>2. end[k] \in Nat /\ end[m] \in Nat /\ end[n] \in Nat
    BY <1>1, <1>3
  <2> QED BY <2>1, <2>2
<1>5. \A i \in 1..cells : Chunk[i] = TraceText[at0 + i]
  <2>1. TraceText \in Seq(TraceCells)
    BY TextOf DEF SettledIInv
  <2>2. \A i \in 1..cells : at0 + i \in DOMAIN TraceText
    BY <1>4, <2>1
  <2> QED BY <2>2 DEF Chunk
<1>6. DOMAIN Chunk = 1..cells
  BY DEF Chunk
<1>7. PICK f : /\ f[0] = told(k)
               /\ \A j \in 0..cells : j < cells => f[j + 1] = Feed(f[j], Chunk[j + 1])
               /\ Fed(told(k), Chunk) = f[cells]
  <2> HIDE DEF told, cells
  <2>1. InSteps(told(k), Chunk, cells)
    BY <1>4, <1>6, FedByCells
  <2> QED BY <2>1 DEF InSteps
<1> DEFINE Good == {j \in 0..n : k <= j /\ j <= m => f[end[j] - at0] = told(j)}
<1>8. 0 \in Good
  <2>1. k <= 0 => k = 0 /\ end[0] - at0 = 0
    BY <1>1, <1>3
  <2> QED BY <1>3, <1>7, <2>1
<1>9. ASSUME NEW j \in 0..n, j \in Good, j < n PROVE j + 1 \in Good
  <2> DEFINE line == since[j + 1]
             b == end[j] - at0
  <2>1. line \in Lines /\ line[2] \in {1, 2} /\ j + 1 \in 1..n
    BY <1>1, <1>9, LineOf
  <2>2. SUFFICES ASSUME k <= j + 1, j + 1 <= m PROVE f[end[j + 1] - at0] = told(j + 1)
    BY <2>1
  <2>3. CASE j + 1 = k
    <3>1. end[j + 1] - at0 = 0
      BY <1>1, <1>3, <2>3
    <3> QED BY <1>7, <2>3, <3>1
  <2>4. CASE j + 1 # k
    <3>1. k <= j /\ j <= m /\ f[b] = told(j)
      BY <1>3, <1>9, <2>2, <2>4
    <3>2. end[j + 1] = end[j] + line[2]
      BY <1>9 DEF Ends
    <3>3. end[j] \in Nat /\ end[k] <= end[j] /\ end[j + 1] <= end[m]
      BY <1>1, <1>2, <1>3, <2>1, <2>2, <3>1
    <3>4. b \in Nat /\ b + line[2] <= cells /\ end[j + 1] - at0 = b + line[2] /\ at0 + b = end[j]
      <4>1. end[k] \in Nat /\ end[m] \in Nat /\ line[2] \in Nat
        BY <1>1, <1>3, <2>1
      <4> HIDE DEF line
      <4> QED BY <4>1, <3>2, <3>3
    <3>5. \A i \in 1..line[2] : TraceText[end[j] + i] = Cell(line, i)
      BY <1>9 DEF Ends
    <3>6. told(j + 1) = [buffer |-> <<>>, shown |-> Append(SubSeq(since, 1, j), line)]
      <4>1. Append(SubSeq(since, 1, j), line) = SubSeq(since, 1, j + 1)
        BY <1>1, <2>1
      <4> QED BY <4>1
    <3> HIDE DEF line, b, told, cells, at0
    <3>7. CASE line[2] = 1
      <4>1. Chunk[b + 1] = Cell(line, 1) /\ b \in 0..cells /\ b < cells
        BY <1>4, <1>5, <3>4, <3>5, <3>7
      <4>2. f[b + 1] = Feed(told(j), Cell(line, 1))
        BY <1>7, <3>1, <4>1
      <4> QED BY <2>1, <3>4, <3>6, <3>7, <4>2, LineFed DEF told
    <3>8. CASE line[2] = 2
      <4>1. /\ b \in 0..cells /\ b < cells /\ b + 1 \in 0..cells /\ b + 1 < cells
            /\ b + 1 \in 1..cells /\ b + 2 \in 1..cells /\ b + 1 + 1 = b + 2
            /\ at0 + (b + 1) = end[j] + 1 /\ at0 + (b + 2) = end[j] + 2
        BY <1>4, <3>4, <3>8
      <4>2. Chunk[b + 1] = Cell(line, 1) /\ Chunk[b + 2] = Cell(line, 2)
        BY <1>5, <3>5, <3>8, <4>1
      <4>3. f[b + 1] = Feed(told(j), Cell(line, 1)) /\ f[b + 2] = Feed(f[b + 1], Cell(line, 2))
        BY <1>7, <3>1, <4>1, <4>2
      <4> QED BY <2>1, <3>4, <3>6, <3>8, <4>3, LineFed DEF told
    <3> QED BY <2>1, <3>7, <3>8
  <2> QED BY <2>3, <2>4
<1>10. m \in Good
  <2> HIDE DEF Good, n
  <2> QED BY <1>1, <1>3, <1>8, <1>9, ByInduction
<1>11. f[cells] = told(m)
  BY <1>3, <1>10
<1> QED BY <1>7, <1>11


\* The watch has printed the first k lines since it began, and has read to the end of line k.
InOrder(end, k) ==
  /\ Ends(end)
  /\ k \in 0..Len(since)
  /\ buffer = <<>> /\ shown = SubSeq(since, 1, k) /\ offset = end[k]
  /\ watch = "read" =>
       \E m \in k..Len(since) :
         size = end[m] /\ (looks = "called" /\ ~changed => m = Len(since))
  /\ watch = "idle" /\ looks = "called" /\ ~changed => k = Len(since)

\* A watch nobody disturbs is between two lines.  (What watchFile has still to tell of is
\* what makes CaughtUp inductive.)
WatchInOrder ==
  /\ watch = "off" =>
       since = <<>> /\ shown = <<>> /\ buffer = <<>> /\ looks = "none" /\ ~disturbed
  /\ watch # "off" /\ ~disturbed => \E end, k : InOrder(end, k)

LEMMA OrderInit == Init => WatchInOrder
BY DEF Init, WatchInOrder

LEMMA StartInOrder ==
  ASSUME SettledIInv, WatchInOrder, StartWatch
  PROVE  WatchInOrder'
<1>1. /\ watch = "off" /\ watch' = "stat" /\ offset' = Len(TraceText)
      /\ since = <<>> /\ shown = <<>> /\ buffer = <<>>
      /\ UNCHANGED <<trace, since, shown, buffer>>
  BY DEF StartWatch, WatchInOrder, fileVars
<1>2. TraceText \in Seq(TraceCells) /\ TraceText' = TraceText
  BY <1>1, TextOf DEF SettledIInv, TraceText
<1>3. PICK end : end = [j \in 0..0 |-> Len(TraceText)]
  OBVIOUS
<1>4. Ends(end)'
  <2>1. since' \in Seq(Lines) /\ Len(since') = 0
    BY <1>1
  <2>2. Len(TraceText) \in Nat /\ 0 \in 0..0
    BY <1>2
  <2>3. end \in [0..0 -> Nat] /\ end[0] = Len(TraceText)
    BY <1>3, <2>2
  <2> QED BY <1>2, <2>1, <2>3 DEF Ends
<1>5. InOrder(end, 0)'
  <2>1. Len(since') = 0 /\ SubSeq(since', 1, 0) = <<>> /\ end[0] = Len(TraceText)
    BY <1>1, <1>3
  <2> QED BY <1>1, <1>4, <2>1 DEF InOrder
<1> QED BY <1>1, <1>5 DEF WatchInOrder

\* What does not touch the file or the watch.
LEMMA OrderStays ==
  ASSUME WatchInOrder, UNCHANGED <<trace, changed, since, disturbed, watchVars>>
  PROVE  WatchInOrder'
BY DEF WatchInOrder, InOrder, Ends, TraceText, watchVars

LEMMA DisturbedOrder ==
  ASSUME watch' # "off", disturbed'
  PROVE  WatchInOrder'
BY DEF WatchInOrder

\* The file is begun again or removed: with nothing in it, or under the watch, or unseen.
LEMMA EmptiedInOrder ==
  ASSUME SettledIInv, WatchInOrder, TraceText' = <<>>,
         UNCHANGED <<watch, looks, offset, size, buffer>>,
         watch # "off" /\ changed => changed',
         Disturb(watch # "off" /\ TraceText # <<>>)
  PROVE  WatchInOrder'
<1>1. CASE watch = "off"
  BY <1>1 DEF WatchInOrder, Disturb
<1>2. CASE watch # "off" /\ (disturbed \/ TraceText # <<>>)
  BY <1>2 DEF WatchInOrder, Disturb
<1>3. CASE watch # "off" /\ ~disturbed /\ TraceText = <<>>
  <2>1. UNCHANGED <<since, shown>> /\ TraceText' = TraceText
    BY <1>3 DEF Disturb
  <2>2. PICK end, k : InOrder(end, k)
    BY <1>3 DEF WatchInOrder
  <2>3. InOrder(end, k)'
    BY <2>1, <2>2 DEF InOrder, Ends
  <2> QED BY <1>3, <2>3 DEF WatchInOrder
<1> QED BY <1>1, <1>2, <1>3


LEMMA AppendInOrder ==
  ASSUME SettledIInv, WatchInOrder, NEW p \in Procs, AppendTrace(p)
  PROVE  WatchInOrder'
<1>1. PICK line : line = <<p, written[p] + 1>>
  OBVIOUS
<1>2. line \in Lines /\ line[2] \in {1, 2}
  BY <1>1 DEF SettledIInv, AppendTrace, Lines
<1>3. /\ changed' = Watching
      /\ since' = IF Watching /\ ~disturbed THEN Append(since, line) ELSE since
      /\ UNCHANGED <<disturbed, watch, looks, offset, size, buffer, shown>>
  BY <1>1 DEF AppendTrace, watchVars
<1>4. TraceText \in Seq(TraceCells) /\ TraceText' = TraceText \o Cells(line)
  BY <1>1, TextOf DEF SettledIInv, AppendTrace
<1>5. CASE watch = "off" \/ disturbed
  BY <1>3, <1>5 DEF WatchInOrder, Watching
<1>6. CASE watch # "off" /\ ~disturbed
  <2>1. since' = Append(since, line) /\ changed' = TRUE
    BY <1>3, <1>6 DEF Watching
  <2>2. PICK end, k : InOrder(end, k)
    BY <1>6 DEF WatchInOrder
  <2>3. PICK n : n = Len(since)
    OBVIOUS
  <2>4. PICK old : old = since
    OBVIOUS
  <2>5. /\ n \in Nat /\ old \in Seq(Lines) /\ Len(old) = n /\ end \in [0..n -> Nat]
        /\ end[n] = Len(TraceText) /\ k \in 0..n
    BY <2>2, <2>3, <2>4 DEF InOrder, Ends
  <2>6. PICK to : to = [j \in 0..(n + 1) |-> IF j = n + 1 THEN end[n] + line[2] ELSE end[j]]
    OBVIOUS
  <2>7. /\ since' \in Seq(Lines) /\ Len(since') = n + 1 /\ since'[n + 1] = line
        /\ \A j \in 1..n : since'[j] = old[j]
    BY <1>2, <2>1, <2>4, <2>5
  <2>8. /\ \A j \in 0..n : to[j] = end[j]
        /\ to[n + 1] = end[n] + line[2] /\ to \in [0..(n + 1) -> Nat]
    BY <1>2, <2>5, <2>6
  <2>9. /\ Cells(line) \in Seq(TraceCells) /\ Len(Cells(line)) = line[2]
        /\ \A i \in 1..line[2] : Cells(line)[i] = Cell(line, i)
    BY <1>2, CellsOf DEF Cells
  <2>10. /\ Len(TraceText') = Len(TraceText) + line[2]
         /\ \A i \in 1..Len(TraceText) : TraceText'[i] = TraceText[i]
         /\ \A i \in 1..line[2] : TraceText'[Len(TraceText) + i] = Cell(line, i)
    <3> DEFINE t == TraceText
               c == Cells(line)
    <3>1. t \in Seq(TraceCells) /\ c \in Seq(TraceCells) /\ Len(c) = line[2] /\ TraceText' = t \o c
      BY <1>4, <2>9
    <3> HIDE DEF t, c
    <3>2. /\ Len(t \o c) = Len(t) + line[2]
          /\ \A i \in 1..Len(t) : (t \o c)[i] = t[i]
          /\ \A i \in 1..line[2] : (t \o c)[Len(t) + i] = c[i]
      BY <1>2, <3>1
    <3> QED BY <2>9, <3>1, <3>2 DEF t, c
  <2>11. ASSUME NEW j \in 0..(n + 1), j < n + 1
         PROVE  /\ to[j + 1] = to[j] + since'[j + 1][2]
                /\ \A i \in 1..since'[j + 1][2] : TraceText'[to[j] + i] = Cell(since'[j + 1], i)
    <3>1. CASE j = n
      <4>1. to[j] = Len(TraceText) /\ since'[j + 1] = line /\ to[j + 1] = to[j] + line[2]
        BY <2>5, <2>7, <2>8, <3>1
      <4> QED BY <2>10, <4>1
    <3>2. CASE j # n
      <4>1. j \in 0..n /\ j < n /\ j + 1 \in 1..n /\ j + 1 \in 0..n
        BY <2>5, <2>11, <3>2
      <4>2. /\ end[j + 1] = end[j] + old[j + 1][2]
            /\ \A i \in 1..old[j + 1][2] : TraceText[end[j] + i] = Cell(old[j + 1], i)
        BY <2>2, <2>3, <2>4, <4>1 DEF InOrder, Ends
      <4>3. since'[j + 1] = old[j + 1] /\ to[j + 1] = end[j + 1] /\ to[j] = end[j]
        BY <2>7, <2>8, <4>1
      <4>4. end[j + 1] <= Len(TraceText) /\ end[j] \in Nat /\ end[j + 1] \in Nat
        <5>1. j + 1 = n \/ j + 1 < n
          BY <2>5, <4>1
        <5>2. end[j + 1] \in Nat /\ end[j] \in Nat /\ end[n] \in Nat
          BY <2>5, <4>1
        <5>3. j + 1 < n => end[j + 1] < end[n]
          BY <2>2, <2>3, <2>5, <4>1, EndsGrow DEF InOrder
        <5> QED BY <2>5, <5>1, <5>2, <5>3
      <4>5. \A i \in 1..old[j + 1][2] : end[j] + i \in 1..Len(TraceText)
        <5>1. old[j + 1][2] \in {1, 2}
          BY <2>5, <4>1, LineOf
        <5>2. Len(TraceText) \in Nat
          BY <1>4
        <5> QED BY <4>2, <4>4, <5>1, <5>2
      <4> QED BY <2>10, <4>2, <4>3, <4>5
    <3> QED BY <3>1, <3>2
  <2>12. Ends(to)'
    <3>1. to[n + 1] = Len(TraceText')
      BY <2>5, <2>8, <2>10
    <3> QED BY <2>7, <2>8, <2>11, <3>1 DEF Ends
  <2>13. k \in 0..(n + 1) /\ to[k] = end[k] /\ SubSeq(since', 1, k) = SubSeq(old, 1, k)
    <3>1. SubSeq(Append(old, line), 1, k) = SubSeq(old, 1, k)
      BY <1>2, <2>5
    <3> QED BY <2>1, <2>4, <2>5, <2>8, <3>1
  <2>14. watch = "read" => \E m \in k..(n + 1) : size = to[m]
    <3> SUFFICES ASSUME watch = "read" PROVE \E m \in k..(n + 1) : size = to[m]
      OBVIOUS
    <3>1. PICK m \in k..n : size = end[m]
      BY <2>2, <2>3 DEF InOrder
    <3>2. m \in k..(n + 1) /\ m \in 0..n
      BY <2>5
    <3> QED BY <2>8, <3>1, <3>2
  <2>15. InOrder(to, k)'
    BY <1>3, <2>1, <2>2, <2>3, <2>4, <2>7, <2>12, <2>13, <2>14 DEF InOrder
  <2> QED BY <1>3, <1>6, <2>15 DEF WatchInOrder
<1> QED BY <1>5, <1>6

LEMMA WritersInOrder ==
  ASSUME SettledIInv, WatchInOrder, Writers
  PROVE  WatchInOrder'
<1> SUFFICES ASSUME NEW p \in Procs,
                    \/ CheckTrace(p) \/ CreateTrace(p) \/ AppendTrace(p)
                    \/ FinishCall(p) \/ KillCommand(p) \/ RemoveTrace(p)
             PROVE  WatchInOrder'
  BY DEF Writers
<1>1. CASE CheckTrace(p) \/ FinishCall(p) \/ KillCommand(p)
  BY <1>1, OrderStays DEF CheckTrace, FinishCall, KillCommand, fileVars
<1>2. CASE CreateTrace(p)
  <2>1. TraceText' = <<>>
    BY <1>2, TextOf DEF SettledIInv, CreateTrace
  <2>2. watch # "off" => changed' = TRUE
    BY <1>2 DEF CreateTrace, Watching
  <2>3. Disturb(watch # "off" /\ TraceText # <<>>) /\ UNCHANGED <<watch, looks, offset, size, buffer>>
    BY <1>2 DEF CreateTrace, Watching
  <2> QED BY <2>1, <2>2, <2>3, EmptiedInOrder
<1>3. CASE RemoveTrace(p)
  <2>1. TraceText' = <<>>
    BY <1>3, Kinds DEF RemoveTrace, TraceText, Contents
  <2>2. CASE watch = "off"
    BY <1>3, <2>2 DEF RemoveTrace, WatchInOrder, Disturb, Watching
  <2>3. CASE watch # "off" /\ Exists(trace)
    BY <1>3, <2>3, DisturbedOrder DEF RemoveTrace, Disturb, Watching
  <2>4. CASE watch # "off" /\ ~Exists(trace)
    <3>1. TraceText = <<>>
      BY <2>4, Kinds DEF TraceText, Contents, Exists, SettledIInv
    <3>2. changed => changed'
      BY <1>3 DEF RemoveTrace
    <3>3. UNCHANGED <<watch, looks, offset, size, buffer>> /\ Disturb(watch # "off" /\ TraceText # <<>>)
      BY <1>3, <2>4, <3>1 DEF RemoveTrace, Watching, Disturb
    <3> QED BY <2>1, <2>4, <3>1, <3>2, <3>3, EmptiedInOrder
  <2> QED BY <2>2, <2>3, <2>4
<1> QED BY <1>1, <1>2, <1>3, AppendInOrder


LEMMA StatInOrder ==
  ASSUME SettledIInv, WatchInOrder, Stat
  PROVE  WatchInOrder'
<1>1. watch = "stat" /\ watch' # "off" /\ UNCHANGED <<trace, changed, since, disturbed, looks, shown>>
  BY DEF Stat, fileVars
<1>2. TraceText' = TraceText /\ TraceText \in Seq(TraceCells) /\ (~Exists(trace) => TraceText = <<>>)
  BY <1>1, TextOf, Kinds DEF SettledIInv, TraceText, Contents, Exists
<1>3. CASE disturbed
  BY <1>1, <1>3 DEF WatchInOrder
<1>4. CASE ~disturbed
  <2>1. PICK end, k : InOrder(end, k)
    BY <1>1, <1>4 DEF WatchInOrder
  <2>2. PICK n : n = Len(since)
    OBVIOUS
  <2>3. /\ n \in Nat /\ k \in 0..n /\ n \in 0..n /\ end[n] = Len(TraceText) /\ offset = end[k]
        /\ end[k] \in Nat /\ end[n] \in Nat
    BY <2>1, <2>2 DEF InOrder, Ends
  <2>4. k # n => end[k] < end[n]
    BY <2>1, <2>2, <2>3, EndsGrow DEF InOrder
  <2>5. CASE ~Exists(trace) \/ Len(TraceText) = offset
    <3>1. k = n
      <4>1. Len(TraceText) = offset \/ Len(TraceText) = 0
        BY <1>2, <2>5
      <4> QED BY <2>3, <2>4, <4>1
    <3>2. watch' = "idle" /\ UNCHANGED <<offset, size, buffer>>
      BY <2>5 DEF Stat
    <3>3. InOrder(end, k)'
      BY <1>1, <1>2, <2>1, <2>2, <3>1, <3>2 DEF InOrder, Ends
    <3> QED BY <1>1, <3>3 DEF WatchInOrder
  <2>6. CASE Exists(trace) /\ Len(TraceText) # offset
    <3>1. k # n /\ ~(Len(TraceText) < offset) /\ Len(TraceText) # offset
      BY <2>3, <2>4, <2>6
    <3>2. watch' = "read" /\ size' = end[n] /\ UNCHANGED <<offset, buffer>>
      BY <2>3, <2>6, <3>1 DEF Stat
    <3>3. n \in k..n
      BY <2>3
    <3>4. InOrder(end, k)'
      BY <1>1, <1>2, <2>1, <2>2, <3>2, <3>3 DEF InOrder, Ends
    <3> QED BY <1>1, <3>4 DEF WatchInOrder
  <2> QED BY <2>5, <2>6
<1> QED BY <1>3, <1>4

LEMMA ReadInOrder ==
  ASSUME SettledIInv, WatchInOrder, Read
  PROVE  WatchInOrder'
<1>1. /\ watch = "read" /\ watch' = "idle" /\ offset' = size
      /\ UNCHANGED <<trace, changed, since, disturbed, looks>>
  BY DEF Read, fileVars
<1>2. CASE disturbed
  BY <1>1, <1>2 DEF WatchInOrder
<1>3. CASE ~disturbed
  <2>1. PICK end, k : InOrder(end, k)
    BY <1>1, <1>3 DEF WatchInOrder
  <2>2. PICK m \in k..Len(since) :
          size = end[m] /\ (looks = "called" /\ ~changed => m = Len(since))
    BY <1>1, <2>1 DEF InOrder
  <2>3. k \in 0..Len(since) /\ m \in 0..Len(since)
    BY <2>1, <2>2 DEF InOrder, Ends
  <2>4. Fed([buffer |-> buffer, shown |-> shown], Chunk)
          = [buffer |-> <<>>, shown |-> SubSeq(since, 1, m)]
    BY <2>1, <2>2, <2>3, ReadPrints DEF InOrder
  <2>5. buffer' = <<>> /\ shown' = SubSeq(since, 1, m)
    <3>1. /\ buffer' = Fed([buffer |-> buffer, shown |-> shown], Chunk).buffer
          /\ shown' = Fed([buffer |-> buffer, shown |-> shown], Chunk).shown
      BY <1>3 DEF Read, Fed
    <3> QED BY <2>4, <3>1
  <2>6. InOrder(end, m)'
    BY <1>1, <2>1, <2>2, <2>3, <2>5 DEF InOrder, Ends, TraceText
  <2> QED BY <1>1, <2>6 DEF WatchInOrder
<1> QED BY <1>2, <1>3

LEMMA WatchStaysInOrder ==
  ASSUME SettledIInv, WatchInOrder, Watch
  PROVE  WatchInOrder'
<1>1. CASE FirstLook
  BY <1>1 DEF FirstLook, WatchInOrder, InOrder, Ends, TraceText
<1>2. CASE CallBack
  BY <1>2 DEF CallBack, WatchInOrder, InOrder, Ends, TraceText
<1>3. CASE StopWatch
  BY <1>3 DEF StopWatch, WatchInOrder
<1> QED BY <1>1, <1>2, <1>3, StartInOrder, StatInOrder, ReadInOrder DEF Watch

LEMMA OrderKept ==
  ASSUME SettledIInv, WatchInOrder, [Next]_vars
  PROVE  WatchInOrder'
<1>1. CASE Profile \/ UNCHANGED vars
  BY <1>1, OrderStays DEF Profile, vars, traceVars, fileVars
<1> QED BY <1>1, WritersInOrder, WatchStaysInOrder DEF Next

LEMMA InOrderShown ==
  ASSUME WatchInOrder, ~disturbed, watch # "off"
  PROVE  \E k \in 0..Len(since) :
           /\ shown = SubSeq(since, 1, k) /\ since \in Seq(Lines)
           /\ watch = "idle" /\ looks = "called" /\ ~changed => k = Len(since)
BY DEF WatchInOrder, InOrder, Ends

LEMMA OrderIsPrefix == WatchInOrder => ShownInOrder
<1> SUFFICES ASSUME WatchInOrder, ~disturbed PROVE IsPrefix(shown, since)
  BY DEF ShownInOrder
<1>1. CASE watch = "off"
  <2>1. shown = <<>> /\ since = <<>>
    BY <1>1 DEF WatchInOrder
  <2> QED BY <2>1 DEF IsPrefix
<1>2. CASE watch # "off"
  <2>1. PICK k \in 0..Len(since) : shown = SubSeq(since, 1, k) /\ since \in Seq(Lines)
    BY <1>2, InOrderShown
  <2>2. Len(shown) = k /\ SubSeq(shown, 1, k) = shown
    BY <2>1
  <2> QED BY <2>1, <2>2 DEF IsPrefix
<1> QED BY <1>1, <1>2

LEMMA OrderIsCaughtUp == WatchInOrder => CaughtUp
<1> SUFFICES ASSUME WatchInOrder, watch = "idle", looks = "called", ~changed, ~disturbed
             PROVE  shown = since
  BY DEF CaughtUp
<1>1. since \in Seq(Lines) /\ shown = SubSeq(since, 1, Len(since))
  BY InOrderShown
<1> QED BY <1>1

\* The watcher prints whole lines, in the order of the file, each once, whatever calls append
\* between its statSync and its readSync, as long as nobody removes or empties the file.
THEOREM LinesAreShownInOrder == Spec => []ShownInOrder
<1>1. SettledIInv /\ [Next]_vars => SettledIInv'
  BY WritersSettled, OthersSettled DEF Next
<1> QED BY <1>1, SettledInit, OrderInit, OrderKept, OrderIsPrefix, PTL DEF Spec

\* A watcher that was called back once, and has nothing left to be told of, has printed
\* every line since it began.
THEOREM WatchCatchesUp == Spec => []CaughtUp
<1>1. SettledIInv /\ [Next]_vars => SettledIInv'
  BY WritersSettled, OthersSettled DEF Next
<1> QED BY <1>1, SettledInit, OrderInit, OrderKept, OrderIsCaughtUp, PTL DEF Spec
=============================================================================
