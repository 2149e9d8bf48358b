----------------------------- MODULE TokenStore -----------------------------
(***************************************************************************)
(* The cloud tokens of the config entries: the configuration flow that     *)
(* logs in (config_flow.py), the stage that hands a first token to setup   *)
(* (__init__.py), and the per-entry storage that the cloud client reads    *)
(* and writes (storage.py).                                                *)
(*                                                                         *)
(* Every load of an entry and every flow has a Store object of its own for *)
(* the one file of the entry.  Home Assistant writes the saves of one      *)
(* Store in order; a removal, and the saves of another Store, land at any  *)
(* time.  The client, a library, replaces the pair when it is refreshed    *)
(* and clears it when it is rejected.  A token is the number of the login  *)
(* or refresh that issued it.                                              *)
(***************************************************************************)
EXTENDS Naturals, Sequences, SequencesExt

CONSTANTS Entries,  \* ids of config entries, never used twice
          Accounts, \* normalized usernames
          Flows,    \* configuration flows
          MaxToken, \* bound on the tokens the cloud issues
          None      \* no token, no account, no flow, a flow of no entry

\* What a flow validates.
Jobs ==
  [entry: Entries \cup {None}, account: Accounts, claimed: BOOLEAN, saved: BOOLEAN]

ASSUME NoneAssumption ==
  None \notin Accounts /\ None \notin Entries /\ None \notin Nat /\ None \notin Jobs
ASSUME MaxTokenAssumption == MaxToken \in Nat

VARIABLES owner,     \* the account each issued token belongs to
          entry,     \* where an entry is in its life
          account,   \* its unique_id
          stage,     \* hass.data[DOMAIN][PENDING_TOKENS]
          disk,      \* the token store of an entry
          memory,    \* DanalockTokenStorage._token of the running load
          writes,    \* saves of the running load that have not landed, in order
          late,      \* saves of earlier loads and removals that have not landed
          flow,      \* what a flow validates
          reload,    \* entries that a flow has saved a login for and setup not loaded
          disturbed, \* history: entries with a file several Stores wrote at once,
                     \* or with a login that a restart cut in two
          unchecked  \* history: entries moved to an account no check had cleared

stores == <<disk, memory, writes, late>>
vars == <<owner, entry, account, stage, stores, flow, reload, disturbed, unchecked>>

Tokens == 1 .. Len(owner)
Places == {"absent", "not_loaded", "seeding", "setup", "loaded", "unloading", "removed"}

Exists(e) == entry[e] \notin {"absent", "removed"}
ClientOpen(e) == entry[e] \in {"setup", "loaded", "unloading"}

TypeOK ==
  /\ owner \in Seq(Accounts)
  /\ entry \in [Entries -> Places]
  /\ account \in [Entries -> Accounts \cup {None}]
  /\ \A e \in Entries : Exists(e) <=> account[e] # None
  /\ stage \in [Accounts -> Tokens \cup {None}]
  /\ disk \in [Entries -> Tokens \cup {None}]
  /\ memory \in [Entries -> Tokens \cup {None}]
  /\ writes \in [Entries -> Seq(Tokens)]
  /\ \A e \in Entries :
       ~ClientOpen(e) /\ entry[e] # "seeding" => memory[e] = None /\ writes[e] = <<>>
  /\ late \in [Entries -> SUBSET (Tokens \cup {None})]
  /\ flow \in [Flows -> Jobs \cup {None}]
  /\ reload \in SUBSET Entries
  /\ disturbed \in SUBSET Entries
  /\ unchecked \in SUBSET Entries

Init ==
  /\ owner = <<>>
  /\ entry = [e \in Entries |-> "absent"]
  /\ account = [e \in Entries |-> None]
  /\ stage = [a \in Accounts |-> None]
  /\ disk = [e \in Entries |-> None]
  /\ memory = [e \in Entries |-> None]
  /\ writes = [e \in Entries |-> <<>>]
  /\ late = [e \in Entries |-> {}]
  /\ flow = [f \in Flows |-> None]
  /\ reload = {}
  /\ disturbed = {}
  /\ unchecked = {}

\* The token the cloud issues next.
Issue(a) ==
  /\ Len(owner) < MaxToken
  /\ owner' = Append(owner, a)

-----------------------------------------------------------------------------
(* The configuration flow.                                                 *)

Taken(a) == \E e \in Entries : account[e] = a
Claimed(a) == \E f \in Flows : flow[f] # None /\ flow[f].claimed /\ flow[f].account = a

\* Mutant: a login to an account that is configured already is not turned away.
SubmitUnchecked(f, e, a) ==
  /\ flow[f] = None
  /\ e # None => Exists(e)
  /\ flow' = [flow EXCEPT ![f] =
                [entry |-> e, account |-> a, claimed |-> TRUE, saved |-> FALSE]]
  /\ UNCHANGED <<owner, entry, account, stage, stores, reload, disturbed, unchecked>>

\* The form of the user step (e = None), reauth or reconfigure is submitted: a
\* new unique id is claimed, which aborts if a flow or an entry has it.
Submit(f, e, a) ==
  /\ flow[f] = None
  /\ e # None => Exists(e)
  /\ LET new == e = None \/ account[e] # a
     IN /\ new => ~Claimed(a) /\ ~Taken(a)
        /\ flow' = [flow EXCEPT ![f] =
                   [entry |-> e, account |-> a, claimed |-> new, saved |-> FALSE]]
  /\ UNCHANGED <<owner, entry, account, stage, stores, reload, disturbed, unchecked>>

\* The validation ends in a typed error and the form is shown again.
Refuse(f) ==
  /\ flow[f] # None
  /\ ~flow[f].saved
  /\ flow' = [flow EXCEPT ![f] = None]
  /\ UNCHANGED <<owner, entry, account, stage, stores, reload, disturbed, unchecked>>

\* The user step ends: the token is staged and the entry created.  (Should an
\* entry have come by the account meanwhile, Home Assistant replaces that entry.)
CreateEntry(f) ==
  /\ flow[f] # None
  /\ flow[f].entry = None
  /\ ~Taken(flow[f].account)
  /\ Issue(flow[f].account)
  /\ stage' = [stage EXCEPT ![flow[f].account] = Len(owner')]
  /\ flow' = [flow EXCEPT ![f] = None]
  /\ \E e \in Entries :
       /\ entry[e] = "absent"
       /\ entry' = [entry EXCEPT ![e] = "not_loaded"]
       /\ account' = [account EXCEPT ![e] = flow[f].account]
  /\ UNCHANGED <<stores, reload, disturbed, unchecked>>

\* A flow revalidates e; it has saved a login and not updated e; no setup has
\* loaded such a login yet; others write to e's file too, or it should be gone.
InFlow(e) == \E f \in Flows : flow[f] # None /\ flow[f].entry = e
LoginSaved(e) == \E f \in Flows : flow[f] # None /\ flow[f].entry = e /\ flow[f].saved
LoginAhead(e) == e \in reload \/ LoginSaved(e)
Shared(e) == writes[e] # <<>> \/ late[e] # {} \/ LoginSaved(e) \/ ~Exists(e)

\* Mutant: the save is not awaited.
SaveLoginUnawaited(f, e) ==
  /\ flow[f] # None
  /\ flow[f].entry = e
  /\ ~flow[f].saved
  /\ Issue(flow[f].account)
  /\ late' = [late EXCEPT ![e] = @ \cup {Len(owner')}]
  /\ flow' = [flow EXCEPT ![f].saved = TRUE]
  /\ disturbed' = IF Shared(e) THEN disturbed \cup {e} ELSE disturbed \ {e}
  /\ UNCHANGED <<entry, account, stage, disk, memory, writes, reload, unchecked>>

\* Reauth or reconfigure validated: the token is saved, which is awaited.
SaveLogin(f, e) ==
  /\ flow[f] # None
  /\ flow[f].entry = e
  /\ ~flow[f].saved
  /\ Issue(flow[f].account)
  /\ disk' = [disk EXCEPT ![e] = Len(owner')]
  /\ flow' = [flow EXCEPT ![f].saved = TRUE]
  /\ disturbed' = IF Shared(e) THEN disturbed \cup {e} ELSE disturbed \ {e}
  /\ UNCHANGED <<entry, account, stage, memory, writes, late, reload, unchecked>>

\* The entry, if it is still there, is updated and its reload scheduled.
UpdateEntry(f, e) ==
  /\ flow[f] # None
  /\ flow[f].entry = e
  /\ flow[f].saved
  /\ flow' = [flow EXCEPT ![f] = None]
  /\ IF Exists(e)
     THEN /\ account' = [account EXCEPT ![e] = flow[f].account]
          /\ reload' = reload \cup {e}
          /\ unchecked' = IF account[e] = flow[f].account THEN unchecked
                          ELSE IF flow[f].claimed THEN unchecked \ {e}
                          ELSE unchecked \cup {e}
     ELSE UNCHANGED <<account, reload, unchecked>>
  /\ UNCHANGED <<owner, entry, stage, stores, disturbed>>

-----------------------------------------------------------------------------
(* The entry.                                                              *)

\* Mutant: the staged token is read and stays staged.
BeginSetupUnpopped(e) ==
  /\ entry[e] = "not_loaded"
  /\ reload' = reload \ {e}
  /\ disturbed' = IF late[e] = {} THEN disturbed ELSE disturbed \cup {e}
  /\ LET staged == stage[account[e]]
     IN IF disk[e] = None /\ staged # None
        THEN /\ entry' = [entry EXCEPT ![e] = "seeding"]
             /\ memory' = [memory EXCEPT ![e] = staged]
             /\ writes' = [writes EXCEPT ![e] = <<staged>>]
        ELSE /\ entry' = [entry EXCEPT ![e] = "setup"]
             /\ memory' = [memory EXCEPT ![e] = disk[e]]
             /\ UNCHANGED writes
  /\ UNCHANGED <<owner, account, stage, disk, late, flow, unchecked>>

\* The store is loaded; if it is empty, a staged token is popped and saved.
BeginSetup(e) ==
  /\ entry[e] = "not_loaded"
  /\ reload' = reload \ {e}
  /\ disturbed' = IF late[e] = {} THEN disturbed ELSE disturbed \cup {e}
  /\ LET staged == stage[account[e]]
     IN IF disk[e] = None /\ staged # None
        THEN /\ entry' = [entry EXCEPT ![e] = "seeding"]
             /\ stage' = [stage EXCEPT ![account[e]] = None]
             /\ memory' = [memory EXCEPT ![e] = staged]
             /\ writes' = [writes EXCEPT ![e] = <<staged>>]
        ELSE /\ entry' = [entry EXCEPT ![e] = "setup"]
             /\ memory' = [memory EXCEPT ![e] = disk[e]]
             /\ UNCHANGED <<stage, writes>>
  /\ UNCHANGED <<owner, account, disk, late, flow, unchecked>>

\* That save has landed and the client is built.
Seeded(e) ==
  /\ entry[e] = "seeding"
  /\ writes[e] = <<>>
  /\ entry' = [entry EXCEPT ![e] = "setup"]
  /\ UNCHANGED <<owner, account, stage, stores, flow, reload, disturbed, unchecked>>

\* The device list and the keys are fetched, which takes a token.
FinishSetup(e) ==
  /\ entry[e] = "setup"
  /\ memory[e] # None
  /\ entry' = [entry EXCEPT ![e] = "loaded"]
  /\ UNCHANGED <<owner, account, stage, stores, flow, reload, disturbed, unchecked>>

BeginUnload(e) ==
  /\ entry[e] = "loaded"
  /\ entry' = [entry EXCEPT ![e] = "unloading"]
  /\ UNCHANGED <<owner, account, stage, stores, flow, reload, disturbed, unchecked>>

\* Mutant: a setup that fails puts the token back on the stage.
CloseClientRestaged(e) ==
  /\ entry[e] \in {"setup", "unloading"}
  /\ entry' = [entry EXCEPT ![e] = "not_loaded"]
  /\ stage' = IF entry[e] = "setup" THEN [stage EXCEPT ![account[e]] = memory[e]] ELSE stage
  /\ memory' = [memory EXCEPT ![e] = None]
  /\ writes' = [writes EXCEPT ![e] = <<>>]
  /\ late' = [late EXCEPT ![e] = @ \cup ToSet(writes[e])]
  /\ UNCHANGED <<owner, account, disk, flow, reload, disturbed, unchecked>>

\* The setup fails or the unload is done: the client is closed, its storage
\* dropped with whatever it has not written yet.
CloseClient(e) ==
  /\ entry[e] \in {"setup", "unloading"}
  /\ entry' = [entry EXCEPT ![e] = "not_loaded"]
  /\ memory' = [memory EXCEPT ![e] = None]
  /\ writes' = [writes EXCEPT ![e] = <<>>]
  /\ late' = [late EXCEPT ![e] = @ \cup ToSet(writes[e])]
  /\ UNCHANGED <<owner, account, stage, disk, flow, reload, disturbed, unchecked>>

\* Mutants: the file stays; the entry keeps its account.
RemoveEntryOnly(e) ==
  /\ entry[e] = "not_loaded"
  /\ entry' = [entry EXCEPT ![e] = "removed"]
  /\ stage' = [stage EXCEPT ![account[e]] = None]
  /\ account' = [account EXCEPT ![e] = None]
  /\ disturbed' = IF late[e] # {} \/ InFlow(e) THEN disturbed \cup {e} ELSE disturbed
  /\ reload' = reload \ {e}
  /\ UNCHANGED <<owner, stores, flow, unchecked>>

RemoveUnregistered(e) ==
  /\ entry[e] = "not_loaded"
  /\ entry' = [entry EXCEPT ![e] = "removed"]
  /\ disk' = [disk EXCEPT ![e] = None]
  /\ stage' = [stage EXCEPT ![account[e]] = None]
  /\ reload' = reload \ {e}
  /\ UNCHANGED <<owner, account, memory, writes, late, flow, disturbed, unchecked>>

\* async_remove_entry: the file and a leftover stage are removed.
RemoveEntry(e) ==
  /\ entry[e] = "not_loaded"
  /\ entry' = [entry EXCEPT ![e] = "removed"]
  /\ disk' = [disk EXCEPT ![e] = None]
  /\ stage' = [stage EXCEPT ![account[e]] = None]
  /\ account' = [account EXCEPT ![e] = None]
  /\ disturbed' = IF late[e] # {} \/ InFlow(e) THEN disturbed \cup {e} ELSE disturbed
  /\ reload' = reload \ {e}
  /\ UNCHANGED <<owner, memory, writes, late, flow, unchecked>>

-----------------------------------------------------------------------------
(* The storage.                                                            *)

\* What a client writes after a login was saved reaches the file after it.
WriteAfterLogin(e) == disturbed' = IF LoginAhead(e) THEN disturbed \cup {e} ELSE disturbed

\* Mutant: a refreshed pair is kept in memory only.
SaveInMemory(e) ==
  /\ ClientOpen(e)
  /\ memory[e] # None
  /\ Issue(owner[memory[e]])
  /\ memory' = [memory EXCEPT ![e] = Len(owner')]
  /\ WriteAfterLogin(e)
  /\ UNCHANGED <<entry, account, stage, disk, writes, late, flow, reload, unchecked>>

\* save: the client has refreshed the pair.
Save(e) ==
  /\ ClientOpen(e)
  /\ memory[e] # None
  /\ Issue(owner[memory[e]])
  /\ memory' = [memory EXCEPT ![e] = Len(owner')]
  /\ writes' = [writes EXCEPT ![e] = Append(@, Len(owner'))]
  /\ WriteAfterLogin(e)
  /\ UNCHANGED <<entry, account, stage, disk, late, flow, reload, unchecked>>

\* clear: the cloud has rejected it.
Clear(e) ==
  /\ ClientOpen(e)
  /\ memory[e] # None
  /\ memory' = [memory EXCEPT ![e] = None]
  /\ late' = [late EXCEPT ![e] = @ \cup {None}]
  /\ WriteAfterLogin(e)
  /\ UNCHANGED <<owner, entry, account, stage, disk, writes, flow, reload, unchecked>>

\* A save of the running load lands.
Write(e) ==
  /\ writes[e] # <<>>
  /\ disk' = [disk EXCEPT ![e] = Head(writes[e])]
  /\ writes' = [writes EXCEPT ![e] = Tail(@)]
  /\ UNCHANGED <<owner, entry, account, stage, memory, late, flow, reload, disturbed,
                 unchecked>>

\* A removal lands, or a save of a Store that nobody uses any more.
WriteLate(e) ==
  /\ \E what \in late[e] :
       /\ disk' = [disk EXCEPT ![e] = what]
       /\ late' = [late EXCEPT ![e] = @ \ {what}]
  /\ UNCHANGED <<owner, entry, account, stage, memory, writes, flow, reload, disturbed,
                 unchecked>>

\* Home Assistant stops or crashes and starts again: the files are what is left.
Restart ==
  /\ entry' = [e \in Entries |-> IF Exists(e) THEN "not_loaded" ELSE entry[e]]
  /\ stage' = [a \in Accounts |-> None]
  /\ memory' = [e \in Entries |-> None]
  /\ writes' = [e \in Entries |-> <<>>]
  /\ late' = [e \in Entries |-> {}]
  /\ flow' = [f \in Flows |-> None]
  /\ reload' = {}
  /\ disturbed' = disturbed \cup {e \in Entries : LoginSaved(e)}
  /\ UNCHANGED <<owner, account, disk, unchecked>>

FlowStep(f) ==
  \/ \E e \in Entries \cup {None}, a \in Accounts : Submit(f, e, a)
  \/ Refuse(f)
  \/ CreateEntry(f)
  \/ \E e \in Entries : SaveLogin(f, e) \/ UpdateEntry(f, e)

EntryStep(e) ==
  \/ BeginSetup(e) \/ Seeded(e) \/ FinishSetup(e)
  \/ BeginUnload(e) \/ CloseClient(e) \/ RemoveEntry(e)
  \/ Save(e) \/ Clear(e) \/ Write(e) \/ WriteLate(e)

Next == (\E f \in Flows : FlowStep(f)) \/ (\E e \in Entries : EntryStep(e)) \/ Restart

Spec == Init /\ [][Next]_vars

-----------------------------------------------------------------------------
(* Properties.                                                             *)

\* The tokens an entry's storage holds, on their way to the file included.
Held(e) == ({disk[e], memory[e]} \cup ToSet(writes[e]) \cup late[e]) \ {None}

\* A token is in one place: handed over from the stage to one entry, and never
\* shared by two entries, of which one would invalidate it for the other.
TokensNotShared ==
  /\ \A e, g \in Entries : e # g => Held(e) \cap Held(g) = {}
  /\ \A a \in Accounts, e \in Entries : stage[a] \notin Held(e)

\* A token that no storage holds any more is never used again, and one that an
\* entry holds was issued to it or handed to it by the stage, which then lost it:
\* whatever is written late or read from a stale file, no token comes back.
TokenLife == INSTANCE TokenLife WITH
  issued <- Len(owner),
  staged <- [a \in Accounts |-> {stage[a]} \ {None}],
  held <- [e \in Entries |-> Held(e)]
TokensLiveOnce == TokenLife!Spec

\* A loaded entry works for the account it is named after: after a login to
\* another account the old client, its saves and the reload notwithstanding,
\* unless its file was written by several Stores at once.
LoadedAccount ==
  \A e \in Entries :
    (entry[e] = "loaded" /\ ~LoginAhead(e) /\ e \notin disturbed /\ memory[e] # None)
      => owner[memory[e]] = account[e]

\* What a running client uses survives a restart: it is on the disk or will be
\* once the saves have landed, unless several Stores wrote at once.
TokensDurable ==
  \A e \in Entries :
    (ClientOpen(e) /\ ~LoginAhead(e) /\ e \notin disturbed /\ memory[e] # None)
      => memory[e] = IF writes[e] = <<>> THEN disk[e] ELSE Last(writes[e])

\* A removed entry leaves no tokens behind, unless a save or a login of it was
\* under way when it was removed.
RemovedForGood ==
  \A e \in Entries \ disturbed : entry[e] = "removed" => disk[e] = None

\* No account is configured twice, unless two flows of an entry overlap: one
\* that found the account unchanged moves it back when the other has moved it.
AccountsDistinct ==
  \A e, g \in Entries :
    (e # g /\ account[e] # None /\ account[e] = account[g]) => {e, g} \cap unchecked # {}

(* What a comment says and the code does not do.                           *)

\* "The tokens are saved with an awaited store write before the reload is
\* scheduled, so setup always sees them": the setup after a login works with a
\* token of the account that was logged in to (another flow's login aside).
SetupSeesLogin ==
  [][\A e \in reload \ reload' :
       (entry'[e] \in {"seeding", "setup"} /\ ~LoginSaved(e)) =>
         memory'[e] # None /\ owner[memory'[e]] = account[e]]_vars
=============================================================================
