---------------------------- MODULE HorsProfile ----------------------------
(***************************************************************************)
(* ~/.hors: the keystore, the profile and the service cache, and the       *)
(* commands of the CLI and its MCP bridge that write them.  Every command  *)
(* is a process, processes share the files and hold no lock, and a process *)
(* may be killed between any two of its system calls.                      *)
(*                                                                         *)
(* writeFileSync truncates a file when it opens it and fills it later, so  *)
(* others may read it empty, and what two writers leave may be neither's.  *)
(*                                                                         *)
(* A key is identified with the process that generated it, and a cached    *)
(* entry with the process that brought it; Before stands for what the home *)
(* held already.                                                           *)
(***************************************************************************)
EXTENDS Naturals

CONSTANTS
  Procs,      \* processes, each of which runs one command
  Names,      \* ENS names
  Humans,     \* human ids AgentBook may name
  NoHuman,    \* AgentBook knows nobody for the address
  Before,
  NoEntry,    \* undefined
  Nobody,     \* no process
  Mixes       \* bound on the commands that share a home: one of these sets

Origins == Procs \cup {Before}

ASSUME ProfileAssumption ==
  /\ Before \notin Procs
  /\ NoEntry \notin Origins
  /\ NoHuman \notin Humans
  /\ Nobody \notin Procs

Commands == {"upsert", "connect", "call", "disconnect"}

ASSUME MixAssumption == Mixes \subseteq SUBSET Commands

ServiceMaps == [Names -> Origins \cup {NoEntry}]
Profiles    == [humanId : Humans, connectorAddress : Origins, services : ServiceMaps]

NoServices  == [n \in Names |-> NoEntry]
OldServices == [n \in Names |-> Before]

VARIABLES
  keystore, profile, services,   \* the three files
  book,       \* AgentBook
  named,      \* pairs of an address and a human AgentBook has named for it
  at,         \* where each process is
  target,     \* the name an upsert is for
  mix,        \* the commands of this behaviour
  own,        \* what each process keeps in its memory
  alone,      \* the running command that has met no other so far
  before      \* the home as it found it

homeVars == <<keystore, profile, services>>
worldVars == <<book, named, mix>>
historyVars == <<alone, before>>
profileVars == <<homeVars, worldVars, at, target, own, historyVars>>

-----------------------------------------------------------------------------
(***************************************************************************)
(* Files.                                                                  *)
(***************************************************************************)
Absent   == [is |-> "absent"]
Empty    == [is |-> "empty"]
Garbled  == [is |-> "garbled"]
Whole(v) == [is |-> "whole", value |-> v]

Files(Values) == {Absent, Empty, Garbled} \cup {Whole(v) : v \in Values}

Exists(file) == file.is # "absent"

\* What a file may hold after a write at its start: a longer text shows behind the end.
AfterWrite(file, v) == IF file = Empty THEN {Whole(v)} ELSE {Whole(v), Garbled}

\* Reading a file that is not there and one that does not parse is the same.
Contents(file, fallback) == IF file.is = "whole" THEN file.value ELSE fallback

NoProfile == [is |-> "null"]

readProfile       == Contents(profile, NoProfile)
readServicesCache == Contents(services, NoServices)

Home == [key |-> Contents(keystore, NoEntry), profile |-> readProfile,
         services |-> readServicesCache]

Homes ==
  [key : Origins \cup {NoEntry}, profile : Profiles \cup {NoProfile}, services : ServiceMaps]

EmptyHome == [key |-> NoEntry, profile |-> NoProfile, services |-> NoServices]

-----------------------------------------------------------------------------
Idle  == {"idle"}
Ended == {"done", "failed"}

\* The steps of a command, named for what comes next.
UpsertSteps  == {"readCache", "openCache", "writeCache", "readProfile"}
ConnectSteps == {"openKeystore", "writeKeystore", "lookup", "register", "poll"}
SharedSteps  == {"openProfile", "writeProfile"}
OtherSteps   == {"calling", "removing"}
Steps == Idle \cup Ended \cup UpsertSteps \cup ConnectSteps \cup SharedSteps \cup OtherSteps

Active(p) == at[p] \notin Idle \cup Ended

HomeFiles == {"keystore", "profile", "services", "trace"}

\* The key a connect works with, the cache and the profile about to be written, the files
\* a disconnect has not come to yet, and whether the open file has been unlinked.
Memories ==
  [key : Origins, cache : ServiceMaps, profile : Profiles \cup {NoProfile},
   todo : SUBSET HomeFiles, unlinked : BOOLEAN]

Fresh(p) ==
  [key |-> p, cache |-> NoServices, profile |-> NoProfile, todo |-> {}, unlinked |-> FALSE]

ProfileTypeOK ==
  /\ keystore \in Files(Origins)
  /\ profile \in Files(Profiles)
  /\ services \in Files(ServiceMaps)
  /\ book \in [Origins -> Humans \cup {NoHuman}]
  /\ named \subseteq Origins \X Humans
  /\ mix \in Mixes
  /\ at \in [Procs -> Steps]
  /\ target \in [Procs -> Names]
  /\ own \in [Procs -> Memories]
  /\ alone \in Procs \cup {Nobody}

\* The home of a human who has connected and cached every service.
Connected(h) ==
  /\ keystore = Whole(Before)
  /\ profile = Whole([humanId |-> h, connectorAddress |-> Before, services |-> OldServices])
  /\ services = Whole(OldServices)
  /\ book = [o \in Origins |-> IF o = Before THEN h ELSE NoHuman]
  /\ named = {<<Before, h>>}

ProfileInit ==
  /\ \/ /\ keystore = Absent /\ profile = Absent /\ services = Absent
        /\ book = [o \in Origins |-> NoHuman]
        /\ named = {}
     \/ \E h \in Humans : Connected(h)
  /\ mix \in Mixes
  /\ at = [p \in Procs |-> "idle"]
  /\ target \in [Procs -> Names]
  /\ own = [p \in Procs |-> Fresh(p)]
  /\ alone = Nobody
  /\ before = EmptyHome

-----------------------------------------------------------------------------
Goto(p, step) == at' = [at EXCEPT ![p] = step]

\* A process starts, and shares the home with those that are running.
Begin(p, step) ==
  /\ at[p] = "idle"
  /\ Goto(p, step)
  /\ IF \E q \in Procs : Active(q)
       THEN alone' = Nobody /\ before' = EmptyHome
       ELSE alone' = p /\ before' = Home

\* A process ends, and nothing is left of it but what it wrote.
End(p, how) ==
  /\ Goto(p, how)
  /\ own' = [own EXCEPT ![p] = Fresh(p)]
  /\ IF alone = p THEN alone' = Nobody /\ before' = EmptyHome ELSE UNCHANGED historyVars

\* A command that ends before it has done anything.
GiveUp(p) == at[p] = "idle" /\ Goto(p, "failed") /\ UNCHANGED <<own, historyVars>>

\* writeFileSync: open ...
Open(p, next) ==
  /\ Goto(p, next)
  /\ own' = [own EXCEPT ![p].unlinked = FALSE]
  /\ UNCHANGED <<worldVars, target, historyVars>>

\* ... and write, perhaps to a file that has lost its name meanwhile.
Fill(p, file, after, v) == IF own[p].unlinked THEN after = file ELSE after \in AfterWrite(file, v)

-----------------------------------------------------------------------------
(***************************************************************************)
(* upsertService, in hors services, hors list-functions and their tools.   *)
(***************************************************************************)
BeginUpsert(p) ==
  /\ Begin(p, "readCache")
  /\ UNCHANGED <<homeVars, worldVars, target, own>>

ReadCache(p) ==
  /\ at[p] = "readCache" /\ Goto(p, "openCache")
  /\ own' = [own EXCEPT ![p].cache = [readServicesCache EXCEPT ![target[p]] = p]]
  /\ UNCHANGED <<homeVars, worldVars, target, historyVars>>

OpenCache(p) ==
  /\ at[p] = "openCache" /\ Open(p, "writeCache")
  /\ services' = Empty
  /\ UNCHANGED <<keystore, profile>>

WriteCache(p) ==
  /\ at[p] = "writeCache" /\ Goto(p, "readProfile")
  /\ Fill(p, services, services', own[p].cache)
  /\ own' = [own EXCEPT ![p] = Fresh(p)]
  /\ UNCHANGED <<keystore, profile, worldVars, target, historyVars>>

\* Mutant: the profile keeps the entry it has.
ReadProfileKeeping(p) ==
  /\ at[p] = "readProfile"
  /\ IF readProfile = NoProfile \/ readProfile.services[target[p]] # NoEntry
       THEN End(p, "done")
       ELSE /\ Goto(p, "openProfile")
            /\ own' = [own EXCEPT ![p].profile = [readProfile EXCEPT !.services[target[p]] = p]]
            /\ UNCHANGED historyVars
  /\ UNCHANGED <<homeVars, worldVars, target>>

\* The entry goes into the profile too, if there is one.
ReadProfile(p) ==
  /\ at[p] = "readProfile"
  /\ IF readProfile = NoProfile
       THEN End(p, "done")
       ELSE /\ Goto(p, "openProfile")
            /\ own' = [own EXCEPT ![p].profile = [readProfile EXCEPT !.services[target[p]] = p]]
            /\ UNCHANGED historyVars
  /\ UNCHANGED <<homeVars, worldVars, target>>

\* writeProfile, the last thing an upsert and a connect do.
OpenProfile(p) ==
  /\ at[p] = "openProfile" /\ Open(p, "writeProfile")
  /\ profile' = Empty
  /\ UNCHANGED <<keystore, services>>

WriteProfile(p) ==
  /\ at[p] = "writeProfile" /\ End(p, "done")
  /\ Fill(p, profile, profile', own[p].profile)
  /\ UNCHANGED <<keystore, services, worldVars, target>>

-----------------------------------------------------------------------------
(***************************************************************************)
(* hors connect [--fresh] [--skip-register].                               *)
(***************************************************************************)

\* A keystore that is there is loaded, which throws when it does not parse.
BeginConnect(p, fresh) ==
  /\ \/ /\ fresh \/ ~Exists(keystore)
        /\ Begin(p, "openKeystore")
        /\ UNCHANGED own
     \/ /\ ~fresh /\ keystore.is = "whole"
        /\ Begin(p, "lookup")
        /\ own' = [own EXCEPT ![p].key = keystore.value]
     \/ /\ ~fresh /\ keystore.is \in {"empty", "garbled"}
        /\ GiveUp(p)
  /\ UNCHANGED <<homeVars, worldVars, target>>

OpenKeystore(p) ==
  /\ at[p] = "openKeystore" /\ Open(p, "writeKeystore")
  /\ keystore' = Empty
  /\ UNCHANGED <<profile, services>>

WriteKeystore(p) ==
  /\ at[p] = "writeKeystore" /\ Goto(p, "lookup")
  /\ Fill(p, keystore, keystore', own[p].key)
  /\ UNCHANGED <<profile, services, worldVars, target, own, historyVars>>

ProfileOf(h, k) == [humanId |-> h, connectorAddress |-> k, services |-> NoServices]

\* Mutant: the profile is given the address of the process's own new wallet.
FoundFresh(p) ==
  /\ book[own[p].key] # NoHuman
  /\ Goto(p, "openProfile")
  /\ own' = [own EXCEPT ![p].profile = ProfileOf(book[own[p].key], p)]

\* lookupHuman answers with a human, who goes into a profile without services.
Found(p) ==
  /\ book[own[p].key] # NoHuman
  /\ Goto(p, "openProfile")
  /\ own' = [own EXCEPT ![p].profile = ProfileOf(book[own[p].key], own[p].key)]

\* The first lookup; with --skip-register an unknown wallet is an error.
Lookup(p) ==
  /\ at[p] = "lookup"
  /\ \/ Found(p) /\ UNCHANGED historyVars
     \/ book[own[p].key] = NoHuman /\ Goto(p, "register") /\ UNCHANGED <<own, historyVars>>
     \/ book[own[p].key] = NoHuman /\ End(p, "failed")
  /\ UNCHANGED <<homeVars, worldVars, target>>

\* agentkit-cli exits, with or without having sent a registration.
Register(p) ==
  /\ at[p] = "register"
  /\ \/ Goto(p, "poll") /\ UNCHANGED <<own, historyVars>>
     \/ End(p, "failed")
  /\ UNCHANGED <<homeVars, worldVars, target>>

\* pollHumanId, until the wallet is known or the five minutes are over.
Poll(p) ==
  /\ at[p] = "poll"
  /\ \/ Found(p) /\ UNCHANGED historyVars
     \/ End(p, "failed")
  /\ UNCHANGED <<homeVars, worldVars, target>>

-----------------------------------------------------------------------------
(***************************************************************************)
(* The other commands.                                                     *)
(***************************************************************************)

\* hors call, as far as these files are concerned: it needs a profile and a keystore.
BeginCall(p) ==
  /\ IF readProfile # NoProfile /\ keystore.is = "whole"
       THEN Begin(p, "calling") /\ UNCHANGED own
       ELSE GiveUp(p)
  /\ UNCHANGED <<homeVars, worldVars, target>>

EndCall(p) ==
  /\ at[p] = "calling" /\ End(p, "done")
  /\ UNCHANGED <<homeVars, worldVars, target>>

\* hors disconnect: rmSync unlinks what it finds, in the order the directory gives.
BeginDisconnect(p) ==
  /\ Begin(p, "removing")
  /\ own' = [own EXCEPT ![p].todo = HomeFiles]
  /\ UNCHANGED <<homeVars, worldVars, target>>

\* The file process q has open for writing.
OpenedBy(q) ==
  CASE at[q] = "writeKeystore" -> "keystore"
    [] at[q] = "writeProfile"  -> "profile"
    [] at[q] = "writeCache"    -> "services"
    [] OTHER                   -> "none"

Unlink(p, f) ==
  /\ at[p] = "removing" /\ f \in own[p].todo
  /\ keystore' = IF f = "keystore" THEN Absent ELSE keystore
  /\ profile' = IF f = "profile" THEN Absent ELSE profile
  /\ services' = IF f = "services" THEN Absent ELSE services
  /\ own' = [q \in Procs |->
               IF q = p THEN [own[p] EXCEPT !.todo = @ \ {f}]
               ELSE [own[q] EXCEPT !.unlinked = @ \/ OpenedBy(q) = f]]
  /\ UNCHANGED <<worldVars, at, target, historyVars>>

\* The directory is removed last; it stays, and rmSync throws, when another process has
\* put a file there again.
EndDisconnect(p) ==
  /\ at[p] = "removing" /\ own[p].todo = {} /\ End(p, "done")
  /\ UNCHANGED <<homeVars, worldVars, target>>

-----------------------------------------------------------------------------
\* A process dies, or throws because another one removed the directory under it.
Kill(p) ==
  /\ Active(p) /\ End(p, "failed")
  /\ UNCHANGED <<homeVars, worldVars, target>>

\* A registration in AgentBook becomes visible, moves or ends.  One that no command is
\* about to look at makes no difference.
AgentBookNames(k, h) ==
  /\ \E p \in Procs : own[p].key = k /\ at[p] \in {"lookup", "register", "poll"}
  /\ book[k] # h
  /\ book' = [book EXCEPT ![k] = h]
  /\ named' = IF h = NoHuman THEN named ELSE named \cup {<<k, h>>}
  /\ UNCHANGED <<homeVars, mix, at, target, own, historyVars>>

BeginCommand(p) ==
  \/ "upsert" \in mix /\ BeginUpsert(p)
  \/ "connect" \in mix /\ \E fresh \in BOOLEAN : BeginConnect(p, fresh)
  \/ "call" \in mix /\ BeginCall(p)
  \/ "disconnect" \in mix /\ BeginDisconnect(p)

UpsertStep(p)  == ReadCache(p) \/ OpenCache(p) \/ WriteCache(p) \/ ReadProfile(p)
ConnectStep(p) == OpenKeystore(p) \/ WriteKeystore(p) \/ Lookup(p) \/ Register(p) \/ Poll(p)
ProfileStep(p) == OpenProfile(p) \/ WriteProfile(p)

AgentBook == \E k \in Origins, h \in Humans \cup {NoHuman} : AgentBookNames(k, h)

ProfileNext ==
  \/ \E p \in Procs :
       \/ BeginCommand(p)
       \/ UpsertStep(p)
       \/ ConnectStep(p)
       \/ ProfileStep(p)
       \/ EndCall(p)
       \/ \E f \in HomeFiles : Unlink(p, f)
       \/ EndDisconnect(p)
       \/ Kill(p)
  \/ AgentBook

ProfileSpec == ProfileInit /\ [][ProfileNext]_profileVars

-----------------------------------------------------------------------------
(***************************************************************************)
(* Properties.                                                             *)
(***************************************************************************)

\* A profile names a human AgentBook named for the address it gives, whichever commands
\* wrote over each other's files and wherever they were killed: "an unregistered wallet
\* does not produce a connected profile" (use-hors-cli/SKILL.md).
ProfileNamesRegistered ==
  profile.is = "whole" =>
    <<profile.value.connectorAddress, profile.value.humanId>> \in named

\* What a command does to a home it has to itself.
Upserted(p) ==
  [key |-> before.key,
   profile |-> IF before.profile = NoProfile THEN NoProfile
               ELSE [before.profile EXCEPT !.services[target[p]] = p],
   services |-> [before.services EXCEPT ![target[p]] = p]]

ConnectedAs(home) ==
  /\ home.key # NoEntry
  /\ home.profile # NoProfile
  /\ home.profile.connectorAddress = home.key
  /\ home.services = before.services

\* A command that ends and met no other has done all it should and nothing else, whatever
\* half-written files earlier commands left when they were killed or met each other: a
\* connected home has the key its profile names, an upsert reaches both copies of its
\* entry, and nothing is left of a home that was disconnected.
AloneTakesEffect ==
  [][\A p \in Procs :
       alone = p /\ at[p] # "done" /\ at'[p] = "done" =>
         \/ at[p] \in {"readProfile", "writeProfile"} /\ Home' = Upserted(p)
         \/ at[p] = "writeProfile" /\ ConnectedAs(Home')
         \/ at[p] = "removing" /\ Home' = EmptyHome
         \/ at[p] = "calling" /\ Home' = before]_profileVars

-----------------------------------------------------------------------------
(***************************************************************************)
(* The inductive invariant.                                                *)
(***************************************************************************)

\* Whoever AgentBook names now is among those it has named, and so is whoever a profile
\* that is about to be written names.
DraftsNameRegistered ==
  /\ \A k \in Origins : book[k] # NoHuman => <<k, book[k]>> \in named
  /\ \A p \in Procs :
       /\ own[p].profile # NoProfile =>
            <<own[p].profile.connectorAddress, own[p].profile.humanId>> \in named
       /\ at[p] \in SharedSteps => own[p].profile # NoProfile

\* What a command that has met no other has done to the home by each of its steps.
Progress(p) ==
  /\ at[p] \in {"readCache", "openCache", "openKeystore", "calling"} => Home = before
  /\ at[p] \in {"openCache", "writeCache"} => own[p].cache = Upserted(p).services
  /\ at[p] = "writeCache" => services = Empty
  /\ at[p] \in {"writeCache", "readProfile"} =>
       Home.key = before.key /\ Home.profile = before.profile
  /\ at[p] = "readProfile" => Home.services = Upserted(p).services
  /\ at[p] = "openProfile" \/ at[p] = "writeProfile" =>
       \/ /\ Home.key = before.key
          /\ Home.services = Upserted(p).services
          /\ own[p].profile = Upserted(p).profile
       \/ /\ Home.key # NoEntry
          /\ Home.services = before.services
          /\ own[p].profile.connectorAddress = Home.key
  /\ at[p] = "writeProfile" => profile = Empty
  /\ at[p] = "writeKeystore" => keystore = Empty
  /\ at[p] \in {"writeKeystore", "lookup", "register", "poll"} => Home.services = before.services
  /\ at[p] \in {"lookup", "register", "poll"} => Home.key = own[p].key
  /\ at[p] = "removing" =>
       /\ "keystore" \notin own[p].todo => keystore = Absent
       /\ "profile" \notin own[p].todo => profile = Absent
       /\ "services" \notin own[p].todo => services = Absent
  /\ at[p] \in {"writeCache", "writeProfile", "writeKeystore"} => ~own[p].unlinked

AloneKnows ==
  alone # Nobody =>
    /\ \A q \in Procs : Active(q) <=> q = alone
    /\ before \in Homes
    /\ Progress(alone)

ProfileIInv ==
  /\ ProfileTypeOK
  /\ ProfileNamesRegistered
  /\ DraftsNameRegistered
  /\ AloneKnows
=============================================================================
