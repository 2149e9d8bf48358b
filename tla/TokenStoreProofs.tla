-------------------------- MODULE TokenStoreProofs --------------------------
(***************************************************************************)
(* Theorems about TokenStore, for any entries, accounts, flows and any     *)
(* number of tokens.                                                       *)
(*                                                                         *)
(* The storage implements TokenLife step by step (StepLife), and what      *)
(* TokenLife does keeps SharedInv, which strengthens TokensNotShared.      *)
(* ClaimInv strengthens AccountsDistinct; the other three follow from      *)
(* StoreInv.  Its core is LoginInv: from the moment a flow has saved a     *)
(* login until setup loads it, the login is the last word of the file,     *)
(* since every other write marks the entry as disturbed; at all other      *)
(* times the storage has tokens of the entry's account only, and the       *)
(* running client's is the one the file will have.                         *)
(***************************************************************************)
EXTENDS TokenStore, TLAPS

-----------------------------------------------------------------------------
(* Sequences of tokens.                                                    *)

\* A sequence of tokens stays one when tokens are added.
LEMMA SeqGrows == \A S, T : S \subseteq T => Seq(S) \subseteq Seq(T)
  OBVIOUS

\* What a sequence holds when its head is taken.
LEMMA SetOf ==
  ASSUME NEW S, NEW s \in Seq(S)
  PROVE  /\ ToSet(s) \subseteq S
         /\ s # <<>> => /\ Head(s) \in ToSet(s) /\ Last(s) \in ToSet(s)
                        /\ ToSet(Tail(s)) \subseteq ToSet(s)
                        /\ Tail(s) # <<>> => Last(Tail(s)) = Last(s)
                        /\ Tail(s) = <<>> => Head(s) = Last(s)
  <1>1. ToSet(s) \subseteq S
    BY DEF ToSet
  <1>2. ASSUME s # <<>> PROVE Head(s) \in ToSet(s) /\ Last(s) \in ToSet(s)
    BY <1>2 DEF ToSet, Last
  <1>3. ASSUME s # <<>>
        PROVE  /\ ToSet(Tail(s)) \subseteq ToSet(s)
               /\ Tail(s) # <<>> => Last(Tail(s)) = Last(s)
               /\ Tail(s) = <<>> => Head(s) = Last(s)
    <2> DEFINE t == Tail(s)
    <2>1. /\ t \in Seq(S) /\ Len(s) \in Nat \ {0} /\ Len(t) = Len(s) - 1
          /\ \A i \in 1 .. Len(t) : t[i] = s[i + 1]
      BY <1>3
    <2>2. Head(s) = s[1]
      BY <1>3
    <2> HIDE DEF t
    <2>7. t = <<>> => Len(t) = 0
      BY <2>1
    <2>3. \A i \in 1 .. Len(t) : i + 1 \in 1 .. Len(s)
      BY <2>1
    <2>4. ToSet(t) \subseteq ToSet(s)
      BY <2>1, <2>3 DEF ToSet
    <2>5. t # <<>> => Last(t) = Last(s)
      BY <2>1 DEF Last
    <2>6. t = <<>> => Head(s) = Last(s)
      <3>1. t = <<>> => Len(s) = 1
        BY <2>1, <2>7
      <3> QED BY <2>2, <3>1 DEF Last
    <2> QED BY <2>4, <2>5, <2>6 DEF t
  <1> QED BY <1>1, <1>2, <1>3

\* What a sequence holds when an element is appended.
LEMMA SetOfAppend ==
  ASSUME NEW S, NEW s \in Seq(S), NEW x \in S
  PROVE  /\ ToSet(Append(s, x)) = ToSet(s) \cup {x}
         /\ Last(Append(s, x)) = x /\ Append(s, x) # <<>> /\ Append(s, x) \in Seq(S)
  <1> DEFINE more == Append(s, x)
  <1>1. /\ more \in Seq(S) /\ Len(s) \in Nat /\ Len(more) = Len(s) + 1
        /\ more[Len(s) + 1] = x /\ \A i \in 1 .. Len(s) : more[i] = s[i]
    OBVIOUS
  <1>2. more # <<>> /\ Last(more) = x
    BY <1>1 DEF Last
  <1>3. 1 .. Len(more) = 1 .. Len(s) \cup {Len(s) + 1}
    BY <1>1
  <1>4. ToSet(more) = {more[i] : i \in 1 .. Len(more)} /\ ToSet(s) = {s[i] : i \in 1 .. Len(s)}
    BY <1>1 DEF ToSet
  <1>5. ToSet(more) = ToSet(s) \cup {x}
    BY <1>1, <1>3, <1>4
  <1> QED BY <1>1, <1>2, <1>5

\* An issued token is new, and the owners of the others stay.
LEMMA IssueFacts ==
  ASSUME TypeOK, NEW a \in Accounts, Issue(a)
  PROVE  /\ owner' \in Seq(Accounts)
         /\ Len(owner') \in Tokens' /\ Len(owner') \notin Tokens
         /\ Tokens' = Tokens \cup {Len(owner')}
         /\ \A t \in Tokens : owner'[t] = owner[t]
         /\ owner'[Len(owner')] = a /\ Len(owner') # None
  BY NoneAssumption DEF TypeOK, Issue, Tokens

\* A flow's job that is marked as saved.
LEMMA SavedJob ==
  \A j \in Jobs :
    /\ [j EXCEPT !.saved = TRUE] \in Jobs
    /\ [j EXCEPT !.saved = TRUE].entry = j.entry
    /\ [j EXCEPT !.saved = TRUE].account = j.account
    /\ [j EXCEPT !.saved = TRUE].claimed <=> j.claimed
    /\ [j EXCEPT !.saved = TRUE].saved
  BY DEF Jobs

-----------------------------------------------------------------------------
(* Types.                                                                  *)

\* What has the type of tokens keeps it when a token is issued.
LEMMA TypesGrow ==
  ASSUME TypeOK, NEW a \in Accounts, Issue(a)
  PROVE  /\ stage \in [Accounts -> Tokens' \cup {None}]
         /\ disk \in [Entries -> Tokens' \cup {None}]
         /\ memory \in [Entries -> Tokens' \cup {None}]
         /\ writes \in [Entries -> Seq(Tokens')]
         /\ late \in [Entries -> SUBSET (Tokens' \cup {None})]
  <1>1. Tokens \subseteq Tokens'
    BY IssueFacts
  <1>2. Seq(Tokens) \subseteq Seq(Tokens')
    BY <1>1, SeqGrows
  <1> QED BY <1>1, <1>2 DEF TypeOK

\* The steps of a flow keep the types.
LEMMA FlowType ==
  ASSUME TypeOK, NEW f \in Flows, FlowStep(f)
  PROVE  TypeOK'
  <1> USE NoneAssumption
  <1>1. ASSUME NEW e \in Entries \cup {None}, NEW a \in Accounts, Submit(f, e, a)
        PROVE  TypeOK'
    <2>1. flow' \in [Flows -> Jobs \cup {None}]
      BY <1>1 DEF TypeOK, Submit, Jobs
    <2> QED BY <1>1, <2>1 DEF TypeOK, Submit, stores, Tokens, Exists, ClientOpen
  <1>2. CASE Refuse(f)
    BY <1>2 DEF TypeOK, Refuse, stores, Tokens, Exists, ClientOpen
  <1>3. CASE CreateEntry(f)
    <2>1. flow[f] \in Jobs /\ flow[f].account \in Accounts
      BY <1>3 DEF CreateEntry, TypeOK, Jobs
    <2>2. PICK e \in Entries : /\ entry[e] = "absent"
                               /\ entry' = [entry EXCEPT ![e] = "not_loaded"]
                               /\ account' = [account EXCEPT ![e] = flow[f].account]
      BY <1>3 DEF CreateEntry
    <2>3. /\ owner' \in Seq(Accounts) /\ Len(owner') \in Tokens'
          /\ stage \in [Accounts -> Tokens' \cup {None}]
          /\ disk' \in [Entries -> Tokens' \cup {None}]
          /\ memory' \in [Entries -> Tokens' \cup {None}]
          /\ writes' \in [Entries -> Seq(Tokens')]
          /\ late' \in [Entries -> SUBSET (Tokens' \cup {None})]
      BY <1>3, <2>1, IssueFacts, TypesGrow DEF CreateEntry, stores
    <2>4. stage' \in [Accounts -> Tokens' \cup {None}]
      BY <1>3, <2>3 DEF CreateEntry
    <2>5. /\ entry' \in [Entries -> Places] /\ account' \in [Entries -> Accounts \cup {None}]
          /\ \A g \in Entries : Exists(g)' <=> account'[g] # None
      BY <2>1, <2>2 DEF TypeOK, Places, Exists
    <2>6. \A g \in Entries :
            ~ClientOpen(g)' /\ entry'[g] # "seeding" => memory'[g] = None /\ writes'[g] = <<>>
      BY <1>3, <2>2 DEF CreateEntry, stores, TypeOK, ClientOpen
    <2>7. flow' \in [Flows -> Jobs \cup {None}]
      BY <1>3 DEF CreateEntry, TypeOK
    <2> QED BY <1>3, <2>3, <2>4, <2>5, <2>6, <2>7 DEF CreateEntry, TypeOK
  <1>4. ASSUME NEW e \in Entries, SaveLogin(f, e) PROVE TypeOK'
    <2>1. flow[f] \in Jobs /\ flow[f].account \in Accounts
      BY <1>4 DEF SaveLogin, TypeOK, Jobs
    <2>2. /\ owner' \in Seq(Accounts) /\ Len(owner') \in Tokens'
          /\ stage' \in [Accounts -> Tokens' \cup {None}]
          /\ disk \in [Entries -> Tokens' \cup {None}]
          /\ memory' \in [Entries -> Tokens' \cup {None}]
          /\ writes' \in [Entries -> Seq(Tokens')]
          /\ late' \in [Entries -> SUBSET (Tokens' \cup {None})]
      BY <1>4, <2>1, IssueFacts, TypesGrow DEF SaveLogin
    <2>3. disk' \in [Entries -> Tokens' \cup {None}]
      BY <1>4, <2>2 DEF SaveLogin
    <2>4. flow' \in [Flows -> Jobs \cup {None}]
      BY <1>4, <2>1, SavedJob DEF SaveLogin, TypeOK
    <2>5. disturbed' \in SUBSET Entries
      BY <1>4 DEF SaveLogin, TypeOK
    <2> QED BY <1>4, <2>2, <2>3, <2>4, <2>5 DEF SaveLogin, TypeOK, Exists, ClientOpen
  <1>5. ASSUME NEW e \in Entries, UpdateEntry(f, e) PROVE TypeOK'
    <2>1. flow[f] \in Jobs /\ flow[f].account \in Accounts
      BY <1>5 DEF UpdateEntry, TypeOK, Jobs
    <2>2. flow' \in [Flows -> Jobs \cup {None}]
      BY <1>5 DEF UpdateEntry, TypeOK
    <2>3. /\ account' \in [Entries -> Accounts \cup {None}]
          /\ \A g \in Entries : Exists(g)' <=> account'[g] # None
      <3>1. CASE Exists(e)
        <4>1. account' = [account EXCEPT ![e] = flow[f].account] /\ entry' = entry
          BY <1>5, <3>1 DEF UpdateEntry
        <4> QED BY <2>1, <3>1, <4>1 DEF TypeOK, Exists
      <3>2. CASE ~Exists(e)
        <4>1. UNCHANGED <<account, entry>>
          BY <1>5, <3>2 DEF UpdateEntry
        <4> QED BY <4>1 DEF TypeOK, Exists
      <3> QED BY <3>1, <3>2
    <2>4. reload' \in SUBSET Entries /\ unchecked' \in SUBSET Entries
      BY <1>5 DEF UpdateEntry, TypeOK
    <2> QED BY <1>5, <2>2, <2>3, <2>4 DEF UpdateEntry, TypeOK, stores, Tokens, ClientOpen
  <1> QED BY <1>1, <1>2, <1>3, <1>4, <1>5 DEF FlowStep

\* So do the steps of an entry and of its storage.
LEMMA EntryType ==
  ASSUME TypeOK, NEW e \in Entries, EntryStep(e)
  PROVE  TypeOK'
  <1> USE NoneAssumption
  <1>1. CASE BeginSetup(e)
    <2>1. account[e] \in Accounts
      BY <1>1 DEF BeginSetup, TypeOK, Exists
    <2>2. CASE disk[e] = None /\ stage[account[e]] # None
      <3>1. stage[account[e]] \in Tokens /\ <<stage[account[e]]>> \in Seq(Tokens)
        BY <2>1, <2>2 DEF TypeOK
      <3>2. /\ entry' = [entry EXCEPT ![e] = "seeding"]
            /\ stage' = [stage EXCEPT ![account[e]] = None]
            /\ memory' = [memory EXCEPT ![e] = stage[account[e]]]
            /\ writes' = [writes EXCEPT ![e] = <<stage[account[e]]>>]
        BY <1>1, <2>2 DEF BeginSetup
      <3>3. /\ writes' \in [Entries -> Seq(Tokens)]
            /\ memory' \in [Entries -> Tokens \cup {None}]
            /\ stage' \in [Accounts -> Tokens \cup {None}]
        BY <3>1, <3>2 DEF TypeOK
      <3>4. /\ entry' \in [Entries -> Places] /\ entry[e] = "not_loaded"
            /\ \A g \in Entries : entry'[g] = IF g = e THEN "seeding" ELSE entry[g]
        BY <1>1, <3>2 DEF BeginSetup, TypeOK, Places
      <3>5. \A g \in Entries : g # e => memory'[g] = memory[g] /\ writes'[g] = writes[g]
        BY <3>2 DEF TypeOK
      <3>6. /\ UNCHANGED <<owner, account, disk, late, flow, unchecked>>
            /\ reload' \in SUBSET Entries /\ disturbed' \in SUBSET Entries
        BY <1>1 DEF BeginSetup, TypeOK
      <3>7. \A g \in Entries : Exists(g)' <=> account'[g] # None
        BY <3>4, <3>6 DEF TypeOK, Exists
      <3>8. \A g \in Entries : ~ClientOpen(g)' /\ entry'[g] # "seeding"
                                  => memory'[g] = None /\ writes'[g] = <<>>
        BY <3>4, <3>5 DEF TypeOK, ClientOpen
      <3> QED BY <3>3, <3>4, <3>6, <3>7, <3>8 DEF TypeOK, Tokens
    <2>3. CASE ~(disk[e] = None /\ stage[account[e]] # None)
      <3>1. /\ entry' = [entry EXCEPT ![e] = "setup"]
            /\ memory' = [memory EXCEPT ![e] = disk[e]]
            /\ UNCHANGED <<stage, writes>>
        BY <1>1, <2>3 DEF BeginSetup
      <3> QED BY <1>1, <3>1 DEF BeginSetup, TypeOK, Tokens, Exists, ClientOpen, Places
    <2> QED BY <2>2, <2>3
  <1>2. CASE Seeded(e)
    BY <1>2 DEF Seeded, TypeOK, stores, Tokens, Exists, ClientOpen, Places
  <1>3. CASE FinishSetup(e)
    BY <1>3 DEF FinishSetup, TypeOK, stores, Tokens, Exists, ClientOpen, Places
  <1>4. CASE BeginUnload(e)
    BY <1>4 DEF BeginUnload, TypeOK, stores, Tokens, Exists, ClientOpen, Places
  <1>5. CASE CloseClient(e)
    <2>1. writes[e] \in Seq(Tokens)
      BY DEF TypeOK
    <2>2. ToSet(writes[e]) \subseteq Tokens /\ <<>> \in Seq(Tokens)
      BY <2>1, SetOf
    <2>3. late' \in [Entries -> SUBSET (Tokens \cup {None})]
      BY <1>5, <2>2 DEF CloseClient, TypeOK
    <2>4. /\ writes' \in [Entries -> Seq(Tokens)]
          /\ memory' \in [Entries -> Tokens \cup {None}]
          /\ memory'[e] = None /\ writes'[e] = <<>>
          /\ \A g \in Entries : g # e => memory'[g] = memory[g] /\ writes'[g] = writes[g]
      BY <1>5, <2>2 DEF CloseClient, TypeOK
    <2>5. /\ entry' \in [Entries -> Places] /\ Exists(e)
          /\ \A g \in Entries : entry'[g] = IF g = e THEN "not_loaded" ELSE entry[g]
      BY <1>5 DEF CloseClient, TypeOK, Places, Exists
    <2>6. UNCHANGED <<owner, account, stage, disk, flow, reload, disturbed, unchecked>>
      BY <1>5 DEF CloseClient
    <2>7. \A g \in Entries : Exists(g)' <=> account'[g] # None
      BY <2>5, <2>6 DEF TypeOK, Exists
    <2>8. \A g \in Entries : ~ClientOpen(g)' /\ entry'[g] # "seeding"
                                => memory'[g] = None /\ writes'[g] = <<>>
      BY <2>4, <2>5 DEF TypeOK, ClientOpen
    <2> QED BY <2>3, <2>4, <2>5, <2>6, <2>7, <2>8 DEF TypeOK, Tokens
  <1>6. CASE RemoveEntry(e)
    <2>1. account[e] \in Accounts
      BY <1>6 DEF RemoveEntry, TypeOK, Exists
    <2> QED BY <1>6, <2>1 DEF RemoveEntry, TypeOK, Tokens, Exists, ClientOpen, Places
  <1>7. CASE Save(e)
    <2>1. memory[e] \in Tokens /\ owner[memory[e]] \in Accounts
      BY <1>7 DEF Save, TypeOK, Tokens
    <2>2. /\ owner' \in Seq(Accounts) /\ Len(owner') \in Tokens'
          /\ stage' \in [Accounts -> Tokens' \cup {None}]
          /\ disk' \in [Entries -> Tokens' \cup {None}]
          /\ memory \in [Entries -> Tokens' \cup {None}]
          /\ writes \in [Entries -> Seq(Tokens')]
          /\ late' \in [Entries -> SUBSET (Tokens' \cup {None})]
      BY <1>7, <2>1, IssueFacts, TypesGrow DEF Save
    <2>3. Append(writes[e], Len(owner')) \in Seq(Tokens')
      BY <2>2
    <2>4. writes' = [writes EXCEPT ![e] = Append(writes[e], Len(owner'))]
      BY <1>7 DEF Save
    <2>5. memory' = [memory EXCEPT ![e] = Len(owner')]
      BY <1>7 DEF Save
    <2>6. writes' \in [Entries -> Seq(Tokens')] /\ memory' \in [Entries -> Tokens' \cup {None}]
      BY <2>2, <2>3, <2>4, <2>5
    <2>7. disturbed' \in SUBSET Entries
      BY <1>7 DEF Save, WriteAfterLogin, TypeOK
    <2>8. \A g \in Entries :
            ~ClientOpen(g)' /\ entry'[g] # "seeding" => memory'[g] = None /\ writes'[g] = <<>>
      BY <1>7, <2>4, <2>5 DEF Save, TypeOK, ClientOpen
    <2> QED BY <1>7, <2>2, <2>6, <2>7, <2>8 DEF Save, TypeOK, Exists
  <1>8. CASE Clear(e)
    BY <1>8 DEF Clear, WriteAfterLogin, TypeOK, Tokens, Exists, ClientOpen
  <1>9. CASE Write(e)
    <2>1. writes[e] \in Seq(Tokens)
      BY DEF TypeOK
    <2>2. Head(writes[e]) \in Tokens /\ Tail(writes[e]) \in Seq(Tokens)
      BY <1>9, <2>1 DEF Write
    <2>3. writes' = [writes EXCEPT ![e] = Tail(writes[e])]
      BY <1>9 DEF Write
    <2>4. writes' \in [Entries -> Seq(Tokens)]
      BY <2>2, <2>3 DEF TypeOK
    <2>5. ClientOpen(e) \/ entry[e] = "seeding"
      BY <1>9 DEF Write, TypeOK
    <2> QED BY <1>9, <2>2, <2>3, <2>4, <2>5 DEF Write, TypeOK, Tokens, Exists, ClientOpen
  <1>10. CASE WriteLate(e)
    <2>1. PICK what \in late[e] : /\ disk' = [disk EXCEPT ![e] = what]
                                  /\ late' = [late EXCEPT ![e] = @ \ {what}]
      BY <1>10 DEF WriteLate
    <2> QED BY <1>10, <2>1 DEF WriteLate, TypeOK, Tokens, Exists, ClientOpen
  <1> QED BY <1>1, <1>2, <1>3, <1>4, <1>5, <1>6, <1>7, <1>8, <1>9, <1>10 DEF EntryStep

\* So does a restart.
LEMMA RestartType == TypeOK /\ Restart => TypeOK'
  <1> SUFFICES ASSUME TypeOK, Restart PROVE TypeOK'
    OBVIOUS
  <1>1. writes' \in [Entries -> Seq(Tokens)]
    BY DEF Restart
  <1>2. entry' \in [Entries -> Places] /\ \A e \in Entries : Exists(e)' <=> Exists(e)
    BY DEF Restart, TypeOK, Exists, Places
  <1> QED BY <1>1, <1>2 DEF Restart, TypeOK, Tokens, ClientOpen

\* So does every step.
LEMMA NextType == TypeOK /\ [Next]_vars => TypeOK'
  <1>1. TypeOK /\ UNCHANGED vars => TypeOK'
    BY DEF TypeOK, vars, stores, Tokens, Exists, ClientOpen
  <1> QED BY <1>1, FlowType, EntryType, RestartType DEF Next

\* Every variable keeps its type; among others, an entry without a client holds no
\* tokens in memory.
THEOREM TypeCorrect == Spec => []TypeOK
  <1>1. Init => TypeOK
    BY NoneAssumption DEF Init, TypeOK, Tokens, Exists, ClientOpen, Places
  <1> QED BY <1>1, NextType, PTL DEF Spec

-----------------------------------------------------------------------------
(* No token is in two places.                                              *)

SharedInv ==
  /\ TokensNotShared
  /\ \A a, b \in Accounts : a # b /\ stage[a] # None => stage[a] # stage[b]

\* What an entry holds are issued tokens.
LEMMA HeldTokens ==
  ASSUME TypeOK, NEW e \in Entries
  PROVE  /\ Held(e) \subseteq Tokens /\ None \notin Held(e)
         /\ ToSet(writes[e]) \subseteq Tokens /\ None \notin Tokens
  <1>1. writes[e] \in Seq(Tokens)
    BY DEF TypeOK
  <1>2. ToSet(writes[e]) \subseteq Tokens
    BY <1>1, SetOf
  <1> QED BY <1>2, NoneAssumption DEF Held, TypeOK, Tokens

\* A step after which nobody holds more.
LEMMA GiveUpLife ==
  ASSUME UNCHANGED owner, \A e \in Entries : Held(e)' \subseteq Held(e),
         \A a \in Accounts : stage'[a] \in {stage[a], None}
  PROVE  TokenLife!GiveUp
  BY DEF TokenLife!GiveUp

\* A step after which one entry also holds a token that was just issued.
LEMMA GrantLife ==
  ASSUME TypeOK, NEW a \in Accounts, Issue(a), NEW e \in Entries, UNCHANGED stage,
         Len(owner') \in Held(e)', Held(e)' \subseteq Held(e) \cup {Len(owner')},
         \A g \in Entries : g # e => Held(g)' = Held(g)
  PROVE  TokenLife!Grant(e)
  <1>1. Len(owner') = Len(owner) + 1
    BY DEF Issue, TypeOK
  <1> DEFINE kept == Held(e)' \ {Len(owner')}
  <1>2. kept \in SUBSET Held(e) /\ Held(e)' = kept \cup {Len(owner')}
    OBVIOUS
  <1>3. [g \in Entries |-> Held(g)'] =
          [[g \in Entries |-> Held(g)] EXCEPT ![e] = kept \cup {Len(owner')}]
    BY <1>2
  <1> QED BY <1>1, <1>2, <1>3 DEF TokenLife!Grant

\* Every step of a flow is one of a token, or stages or holds nothing new.
LEMMA FlowLife ==
  ASSUME TypeOK, NEW f \in Flows, FlowStep(f)
  PROVE  TokenLife!Next
  <1>1. ASSUME UNCHANGED <<owner, stores, stage>> PROVE TokenLife!GiveUp
    <2>1. \A e \in Entries : Held(e)' = Held(e)
      BY <1>1 DEF Held, stores
    <2> QED BY <1>1, <2>1, GiveUpLife
  <1>2. CASE CreateEntry(f)
    <2>1. PICK a \in Accounts : a = flow[f].account
      BY <1>2, NoneAssumption DEF CreateEntry, TypeOK, Jobs
    <2>2. Len(owner') = Len(owner) + 1 /\ Len(owner') # None
      BY <1>2, <2>1, IssueFacts DEF CreateEntry, Issue, TypeOK
    <2>3. [e \in Entries |-> Held(e)'] = [e \in Entries |-> Held(e)]
      BY <1>2 DEF CreateEntry, stores, Held
    <2>4. \A b \in Accounts : stage'[b] = IF b = a THEN Len(owner') ELSE stage[b]
      BY <1>2, <2>1 DEF CreateEntry, TypeOK
    <2>5. [b \in Accounts |-> {stage'[b]} \ {None}] =
            [[b \in Accounts |-> {stage[b]} \ {None}] EXCEPT ![a] = {Len(owner')}]
      BY <2>1, <2>2, <2>4
    <2>6. TokenLife!Stage(a)
      BY <2>2, <2>3, <2>5 DEF TokenLife!Stage
    <2> QED BY <2>1, <2>6 DEF TokenLife!Next
  <1>3. ASSUME NEW e \in Entries, SaveLogin(f, e) PROVE TokenLife!Grant(e)
    <2>1. flow[f].account \in Accounts
      BY <1>3, NoneAssumption DEF SaveLogin, TypeOK, Jobs
    <2>2. Len(owner') # None
      BY <1>3, <2>1, IssueFacts DEF SaveLogin
    <2>3. /\ Len(owner') \in Held(e)' /\ Held(e)' \subseteq Held(e) \cup {Len(owner')}
          /\ \A g \in Entries : g # e => Held(g)' = Held(g)
      BY <1>3, <2>2 DEF SaveLogin, Held, TypeOK
    <2> QED BY <1>3, <2>1, <2>3, GrantLife DEF SaveLogin
  <1>4. CASE Refuse(f) \/ (\E e \in Entries \cup {None}, a \in Accounts : Submit(f, e, a))
             \/ (\E e \in Entries : UpdateEntry(f, e))
    BY <1>1, <1>4 DEF TokenLife!Next, Submit, Refuse, UpdateEntry
  <1> QED BY <1>2, <1>3, <1>4 DEF FlowStep, TokenLife!Next

\* The stage hands its token to the entry that is set up, or the file is loaded.
LEMMA SetupLife ==
  ASSUME TypeOK, NEW e \in Entries, BeginSetup(e)
  PROVE  TokenLife!Next
  <1>1. account[e] \in Accounts
    BY DEF BeginSetup, TypeOK, Exists
  <1>2. CASE disk[e] = None /\ stage[account[e]] # None
    <2> DEFINE t == stage[account[e]]
    <2>1. /\ stage' = [stage EXCEPT ![account[e]] = None]
          /\ memory' = [memory EXCEPT ![e] = t]
          /\ writes' = [writes EXCEPT ![e] = <<t>>]
          /\ UNCHANGED <<owner, disk, late>>
      BY <1>2 DEF BeginSetup
    <2>2. ToSet(<<t>>) = {t} /\ ToSet(<<>>) = {}
      BY DEF ToSet
    <2>3. writes'[e] = <<t>> /\ memory'[e] = t /\ writes[e] = <<>> /\ memory[e] = None
      BY <2>1 DEF BeginSetup, TypeOK, ClientOpen
    <2>4. \A g \in Entries : Held(g)' = IF g = e THEN Held(e) \cup {t} ELSE Held(g)
      BY <1>2, <2>1, <2>2, <2>3 DEF Held, TypeOK
    <2>5. \A a \in Accounts : stage'[a] = IF a = account[e] THEN None ELSE stage[a]
      BY <2>1 DEF TypeOK
    <2>6. [a \in Accounts |-> {stage'[a]} \ {None}] =
            [[a \in Accounts |-> {stage[a]} \ {None}] EXCEPT ![account[e]] = {}]
      BY <2>5
    <2>7. {stage[account[e]]} \ {None} = {t} /\ {t} # {}
      BY <1>2
    <2>8. [g \in Entries |-> Held(g)'] =
            [[g \in Entries |-> Held(g)] EXCEPT ![e] = Held(e) \cup {t}]
      BY <2>4
    <2>9. TokenLife!HandOver(account[e], e)
      BY <1>1, <2>1, <2>6, <2>7, <2>8 DEF TokenLife!HandOver
    <2> QED BY <1>1, <2>9 DEF TokenLife!Next
  <1>3. CASE ~(disk[e] = None /\ stage[account[e]] # None)
    <2>1. /\ memory' = [memory EXCEPT ![e] = disk[e]]
          /\ UNCHANGED <<owner, stage, writes, disk, late>>
      BY <1>3 DEF BeginSetup
    <2>2. \A g \in Entries : Held(g)' \subseteq Held(g)
      BY <2>1 DEF Held, TypeOK
    <2> QED BY <2>1, <2>2, GiveUpLife DEF TokenLife!Next
  <1> QED BY <1>2, <1>3

\* Every step of an entry gives up tokens, but for the setup and for a refresh.
LEMMA EntryLife ==
  ASSUME TypeOK, NEW e \in Entries, EntryStep(e)
  PROVE  TokenLife!Next
  <1>1. ASSUME UNCHANGED <<owner, stores, stage>> PROVE TokenLife!GiveUp
    <2>1. \A g \in Entries : Held(g)' = Held(g)
      BY <1>1 DEF Held, stores
    <2> QED BY <1>1, <2>1, GiveUpLife
  <1>2. CASE Seeded(e) \/ FinishSetup(e) \/ BeginUnload(e)
    BY <1>1, <1>2 DEF TokenLife!Next, Seeded, FinishSetup, BeginUnload
  <1>3. CASE CloseClient(e)
    <2>1. ToSet(<<>>) = {}
      BY DEF ToSet
    <2>2. writes'[e] = <<>> /\ late'[e] = late[e] \cup ToSet(writes[e]) /\ memory'[e] = None
      BY <1>3 DEF CloseClient, TypeOK
    <2>3. \A g \in Entries : g # e => Held(g)' = Held(g)
      BY <1>3 DEF CloseClient, TypeOK, Held
    <2>4. Held(e)' \subseteq Held(e)
      BY <1>3, <2>1, <2>2 DEF CloseClient, Held
    <2> QED BY <1>3, <2>3, <2>4, GiveUpLife DEF CloseClient, TokenLife!Next
  <1>4. CASE RemoveEntry(e)
    <2>1. \A g \in Entries : Held(g)' \subseteq Held(g)
      BY <1>4 DEF RemoveEntry, Held, TypeOK
    <2>2. \A a \in Accounts : stage'[a] \in {stage[a], None}
      BY <1>4 DEF RemoveEntry, TypeOK
    <2> QED BY <1>4, <2>1, <2>2, GiveUpLife DEF RemoveEntry, TokenLife!Next
  <1>5. CASE Save(e)
    <2>1. memory[e] \in Tokens /\ owner[memory[e]] \in Accounts
      BY <1>5 DEF Save, TypeOK, Tokens
    <2>2. Len(owner') # None /\ Tokens \subseteq Tokens' /\ Len(owner') \in Tokens'
      BY <1>5, <2>1, IssueFacts DEF Save
    <2>3. writes[e] \in Seq(Tokens')
      BY <2>2, SeqGrows DEF TypeOK
    <2>4. /\ writes'[e] = Append(writes[e], Len(owner')) /\ memory'[e] = Len(owner')
          /\ disk'[e] = disk[e] /\ late'[e] = late[e]
      BY <1>5 DEF Save, TypeOK
    <2>5. ToSet(writes'[e]) = ToSet(writes[e]) \cup {Len(owner')}
      BY <2>2, <2>3, <2>4, SetOfAppend
    <2>6. Held(e)' \subseteq Held(e) \cup {Len(owner')} /\ Len(owner') \in Held(e)'
      BY <2>2, <2>4, <2>5 DEF Held
    <2>7. \A g \in Entries : g # e => Held(g)' = Held(g)
      BY <1>5 DEF Save, Held, TypeOK
    <2>8. TokenLife!Grant(e)
      BY <1>5, <2>1, <2>6, <2>7, GrantLife DEF Save
    <2> QED BY <2>8 DEF TokenLife!Next
  <1>6. CASE Clear(e)
    <2>1. \A g \in Entries : Held(g)' \subseteq Held(g)
      BY <1>6 DEF Clear, Held, TypeOK
    <2> QED BY <1>6, <2>1, GiveUpLife DEF Clear, TokenLife!Next
  <1>7. CASE Write(e)
    <2>1. writes[e] \in Seq(Tokens) /\ writes[e] # <<>>
      BY <1>7 DEF Write, TypeOK
    <2>2. Head(writes[e]) \in ToSet(writes[e]) /\ ToSet(Tail(writes[e])) \subseteq ToSet(writes[e])
      BY <2>1, SetOf
    <2>3. /\ writes'[e] = Tail(writes[e]) /\ disk'[e] = Head(writes[e])
          /\ UNCHANGED <<owner, memory, late, stage>>
      BY <1>7 DEF Write, TypeOK
    <2>4. Held(e)' \subseteq Held(e)
      BY <2>2, <2>3 DEF Held
    <2>5. \A g \in Entries : g # e => Held(g)' = Held(g)
      BY <1>7 DEF Write, Held, TypeOK
    <2> QED BY <2>3, <2>4, <2>5, GiveUpLife DEF TokenLife!Next
  <1>8. CASE WriteLate(e)
    <2>1. \A g \in Entries : Held(g)' \subseteq Held(g)
      BY <1>8 DEF WriteLate, Held, TypeOK
    <2> QED BY <1>8, <2>1, GiveUpLife DEF WriteLate, TokenLife!Next
  <1> QED BY <1>2, <1>3, <1>4, <1>5, <1>6, <1>7, <1>8, SetupLife DEF EntryStep

\* A restart gives up what is not on the disk.
LEMMA RestartLife == TypeOK /\ Restart => TokenLife!GiveUp
  <1> SUFFICES ASSUME TypeOK, Restart PROVE TokenLife!GiveUp
    OBVIOUS
  <1>1. ToSet(<<>>) = {}
    BY DEF ToSet
  <1>2. \A e \in Entries : Held(e)' \subseteq Held(e)
    BY <1>1 DEF Restart, Held
  <1>3. \A a \in Accounts : stage'[a] = None
    BY DEF Restart
  <1> QED BY <1>2, <1>3, GiveUpLife DEF Restart

\* Every step maps to a step of the tokens or a stutter.
LEMMA StepLife == TypeOK /\ [Next]_vars => [TokenLife!Next]_(TokenLife!vars)
  <1>1. UNCHANGED vars => UNCHANGED TokenLife!vars
    BY DEF vars, stores, TokenLife!vars, Held
  <1>2. TypeOK /\ Next => TokenLife!Next
    BY FlowLife, EntryLife, RestartLife DEF Next, TokenLife!Next
  <1> QED BY <1>1, <1>2

\* Whatever the storage does with its tokens, it implements their life: handed over
\* once, and never used again once no file, client or write in flight has them.
THEOREM StorageRefines == Spec => TokensLiveOnce
  <1>1. Init => TokenLife!Init
    BY DEF Init, TokenLife!Init, Held, ToSet
  <1> QED BY <1>1, StepLife, TypeCorrect, PTL DEF Spec, TokensLiveOnce, TokenLife!Spec

\* A step of the tokens leaves them in one place each.
LEMMA LifeShared ==
  ASSUME TypeOK, SharedInv, [TokenLife!Next]_(TokenLife!vars)
  PROVE  SharedInv'
  <1> DEFINE S(a) == {stage[a]} \ {None}
             New == Len(owner) + 1
  <1>1. /\ \A a \in Accounts : stage'[a] # None => stage'[a] \in S(a)'
        /\ \A e \in Entries : None \notin Held(e)'
    BY DEF Held
  <1>2. /\ \A e \in Entries : New \notin Held(e)
        /\ \A a \in Accounts : New \notin S(a)
    BY HeldTokens DEF TypeOK, Tokens
  <1>3. /\ \A e, g \in Entries : e # g => Held(e) \cap Held(g) = {}
        /\ \A a \in Accounts, e \in Entries : S(a) \cap Held(e) = {}
        /\ \A a, b \in Accounts : a # b => S(a) \cap S(b) = {}
    BY DEF SharedInv, TokensNotShared
  <1> SUFFICES
        /\ \A e, g \in Entries : e # g => Held(e)' \cap Held(g)' = {}
        /\ \A a \in Accounts, e \in Entries : S(a)' \cap Held(e)' = {}
        /\ \A a, b \in Accounts : a # b => S(a)' \cap S(b)' = {}
    BY <1>1 DEF SharedInv, TokensNotShared
  <1> HIDE DEF S
  <1>4. CASE TokenLife!Next
    <2>1. ASSUME NEW a \in Accounts, TokenLife!Stage(a)
          PROVE  /\ \A b \in Accounts : S(b)' = IF b = a THEN {New} ELSE S(b)
                 /\ \A e \in Entries : Held(e)' = Held(e)
      BY <2>1 DEF TokenLife!Stage, S
    <2>2. ASSUME NEW e \in Entries, TokenLife!Grant(e)
          PROVE  /\ \A b \in Accounts : S(b)' = S(b)
                 /\ \A g \in Entries : Held(g)' \subseteq IF g = e THEN Held(g) \cup {New} ELSE Held(g)
      BY <2>2 DEF TokenLife!Grant, S
    <2>3. ASSUME NEW a \in Accounts, NEW e \in Entries, TokenLife!HandOver(a, e)
          PROVE  /\ \A b \in Accounts : S(b)' = IF b = a THEN {} ELSE S(b)
                 /\ \A g \in Entries : Held(g)' = IF g = e THEN Held(g) \cup S(a) ELSE Held(g)
      BY <2>3 DEF TokenLife!HandOver, S
    <2>4. ASSUME TokenLife!GiveUp
          PROVE  /\ \A b \in Accounts : S(b)' \subseteq S(b)
                 /\ \A g \in Entries : Held(g)' \subseteq Held(g)
      BY <2>4 DEF TokenLife!GiveUp, S
    <2>5. CASE \E a \in Accounts : TokenLife!Stage(a)
      BY <1>2, <1>3, <2>1, <2>5
    <2>6. CASE \E e \in Entries : TokenLife!Grant(e)
      BY <1>2, <1>3, <2>2, <2>6
    <2>7. CASE \E a \in Accounts, e \in Entries : TokenLife!HandOver(a, e)
      BY <1>3, <2>3, <2>7
    <2>8. CASE TokenLife!GiveUp
      BY <1>3, <2>4, <2>8
    <2> QED BY <1>4, <2>5, <2>6, <2>7, <2>8 DEF TokenLife!Next
  <1>5. CASE UNCHANGED TokenLife!vars
    <2>1. /\ \A b \in Accounts : S(b)' = S(b)
          /\ \A g \in Entries : Held(g)' = Held(g)
      BY <1>5 DEF TokenLife!vars, S
    <2> QED BY <1>3, <2>1
  <1> QED BY <1>4, <1>5

\* No two entries, nor the stage and an entry, ever hold the same token.
THEOREM NothingIsShared == Spec => []TokensNotShared
  <1>1. Init => SharedInv
    BY NoneAssumption DEF Init, SharedInv, TokensNotShared, Held, ToSet
  <1>2. TypeOK /\ SharedInv /\ [Next]_vars => SharedInv'
    BY StepLife, LifeShared
  <1>3. SharedInv => TokensNotShared
    BY DEF SharedInv
  <1> QED BY <1>1, <1>2, <1>3, TypeCorrect, PTL DEF Spec

\* What the stage and the entries have.
InUse == {t \in Tokens : \/ \E a \in Accounts : stage[a] = t
                         \/ \E e \in Entries : t \in Held(e)}

\* A token that nobody has any more, written over, cleared, or lost with its stage,
\* its client or a restart, is never used again.
THEOREM GivenUpForGood == Spec => [][\A t \in Tokens \ InUse : t \notin InUse']_vars
  <1>1. TypeOK /\ [TokenLife!Next]_(TokenLife!vars)
          => [\A t \in Tokens \ InUse : t \notin InUse']_vars
    <2> SUFFICES ASSUME TypeOK, [TokenLife!Next]_(TokenLife!vars),
                        NEW t \in Tokens \ InUse
                 PROVE  t \notin InUse'
      OBVIOUS
    <2> DEFINE S(a) == {stage[a]} \ {None}
    <2>1. /\ \A a \in Accounts : t \notin S(a)
          /\ \A e \in Entries : t \notin Held(e)
      BY DEF InUse
    <2>2. t # None /\ t # Len(owner) + 1
      BY NoneAssumption DEF TypeOK, Tokens
    <2> SUFFICES /\ \A a \in Accounts : t \notin S(a)'
                 /\ \A e \in Entries : t \notin Held(e)'
      BY <2>2 DEF InUse
    <2>3. ASSUME NEW a \in Accounts, TokenLife!Stage(a)
          PROVE  /\ \A b \in Accounts : S(b)' \subseteq S(b) \cup {Len(owner) + 1}
                 /\ \A e \in Entries : Held(e)' = Held(e)
      BY <2>3 DEF TokenLife!Stage
    <2>4. ASSUME NEW e \in Entries, TokenLife!Grant(e)
          PROVE  /\ \A b \in Accounts : S(b)' = S(b)
                 /\ \A g \in Entries : Held(g)' \subseteq Held(g) \cup {Len(owner) + 1}
      BY <2>4 DEF TokenLife!Grant
    <2>5. ASSUME NEW a \in Accounts, NEW e \in Entries, TokenLife!HandOver(a, e)
          PROVE  /\ \A b \in Accounts : S(b)' \subseteq S(b)
                 /\ \A g \in Entries : Held(g)' \subseteq Held(g) \cup S(a)
      BY <2>5 DEF TokenLife!HandOver
    <2>6. ASSUME TokenLife!GiveUp
          PROVE  /\ \A b \in Accounts : S(b)' \subseteq S(b)
                 /\ \A g \in Entries : Held(g)' \subseteq Held(g)
      BY <2>6 DEF TokenLife!GiveUp
    <2>7. ASSUME UNCHANGED TokenLife!vars
          PROVE  /\ \A b \in Accounts : S(b)' = S(b)
                 /\ \A g \in Entries : Held(g)' = Held(g)
      BY <2>7 DEF TokenLife!vars
    <2> HIDE DEF S
    <2> QED BY <2>1, <2>2, <2>3, <2>4, <2>5, <2>6, <2>7 DEF TokenLife!Next
  <1> QED BY <1>1, StepLife, TypeCorrect, PTL DEF Spec

-----------------------------------------------------------------------------
(* No account is configured twice.                                         *)

\* A flow that has claimed an account for itself.
Claims(f) == flow[f] # None /\ flow[f].claimed

\* What a flow has claimed nobody else claims, and nobody has but an entry that
\* was moved there without a check.
ClaimInv ==
  /\ \A f, g \in Flows :
       Claims(f) /\ Claims(g) /\ flow[f].account = flow[g].account => f = g
  /\ \A f \in Flows, e \in Entries :
       Claims(f) /\ account[e] = flow[f].account => e \in unchecked
  /\ \A f \in Flows : flow[f] # None /\ flow[f].entry = None => Claims(f)
  /\ AccountsDistinct

\* A step after which there are no more claims and no more accounts than before.
LEMMA FewerClaims ==
  ASSUME TypeOK, ClaimInv,
         \A f \in Flows : Claims(f)' => Claims(f) /\ flow'[f].account = flow[f].account,
         \A f \in Flows : flow'[f] # None /\ flow'[f].entry = None => Claims(f)',
         \A e \in Entries : account'[e] \in {account[e], None}, UNCHANGED unchecked
  PROVE  ClaimInv'
  <1>1. \A f \in Flows : Claims(f) => flow[f].account # None
    BY NoneAssumption DEF Claims, TypeOK, Jobs
  <1>2. \A f \in Flows, e \in Entries :
          Claims(f)' /\ account'[e] = flow'[f].account => e \in unchecked'
    BY <1>1 DEF ClaimInv
  <1>3. AccountsDistinct'
    BY DEF ClaimInv, AccountsDistinct
  <1> QED BY <1>2, <1>3 DEF ClaimInv

\* The steps of a flow: an account is claimed when nobody has it, and an entry that
\* gets it is the only one or is recorded as unchecked.
LEMMA FlowClaims ==
  ASSUME TypeOK, ClaimInv, NEW f \in Flows, FlowStep(f)
  PROVE  ClaimInv'
  <1> USE NoneAssumption
  <1>1. ASSUME NEW e \in Entries \cup {None}, NEW a \in Accounts, Submit(f, e, a)
        PROVE  ClaimInv'
    <2> DEFINE new == e = None \/ account[e] # a
    <2>1. /\ flow'[f].account = a /\ flow'[f].entry = e /\ flow'[f].claimed = new
          /\ \A g \in Flows : g # f => flow'[g] = flow[g]
      BY <1>1 DEF Submit, TypeOK
    <2>2. new => ~Claimed(a) /\ ~Taken(a)
      BY <1>1 DEF Submit
    <2>3. \A g \in Flows : g # f => (Claims(g)' <=> Claims(g))
      BY <2>1 DEF Claims
    <2>4. Claims(f)' => \A g \in Flows : ~(Claims(g) /\ flow[g].account = a)
      BY <2>1, <2>2 DEF Claims, Claimed
    <2>5. Claims(f)' => \A g \in Entries : account[g] # a
      BY <2>1, <2>2 DEF Claims, Taken
    <2>6. \A g, h \in Flows :
            Claims(g)' /\ Claims(h)' /\ flow'[g].account = flow'[h].account => g = h
      BY <2>1, <2>3, <2>4 DEF ClaimInv
    <2>7. \A g \in Flows, i \in Entries :
            Claims(g)' /\ account[i] = flow'[g].account => i \in unchecked
      BY <2>1, <2>3, <2>5 DEF ClaimInv
    <2>8. \A g \in Flows : flow'[g] # None /\ flow'[g].entry = None => Claims(g)'
      BY <2>1, <2>3 DEF ClaimInv, Claims
    <2>9. account' = account /\ unchecked' = unchecked
      BY <1>1 DEF Submit
    <2> QED BY <2>6, <2>7, <2>8, <2>9 DEF ClaimInv, AccountsDistinct
  <1>2. CASE Refuse(f)
    <2>1. \A g \in Flows : Claims(g)' => Claims(g) /\ flow'[g] = flow[g]
      BY <1>2 DEF Refuse, TypeOK, Claims
    <2>2. \A g \in Flows : flow'[g] # None => flow'[g] = flow[g]
      BY <1>2 DEF Refuse, TypeOK
    <2> QED BY <1>2, <2>1, <2>2, FewerClaims DEF Refuse, ClaimInv, Claims
  <1>3. CASE CreateEntry(f)
    <2> DEFINE a == flow[f].account
    <2>1. PICK e \in Entries : entry[e] = "absent" /\ account' = [account EXCEPT ![e] = a]
      BY <1>3 DEF CreateEntry
    <2>2. /\ ~Taken(a) /\ Claims(f) /\ unchecked' = unchecked
          /\ flow' = [flow EXCEPT ![f] = None]
      BY <1>3 DEF CreateEntry, ClaimInv
    <2>3. \A g \in Flows : flow'[g] # None => g # f /\ flow'[g] = flow[g]
      BY <2>2 DEF TypeOK
    <2>4. \A g \in Flows : Claims(g)' => Claims(g) /\ flow'[g] = flow[g] /\ flow[g].account # a
      BY <2>2, <2>3 DEF Claims, ClaimInv
    <2>5. \A i \in Entries : account'[i] = IF i = e THEN a ELSE account[i]
      BY <2>1 DEF TypeOK
    <2>6. \A g \in Flows, i \in Entries :
            Claims(g)' /\ account'[i] = flow'[g].account => i \in unchecked
      BY <2>4, <2>5 DEF ClaimInv
    <2>7. AccountsDistinct'
      BY <2>2, <2>5 DEF ClaimInv, AccountsDistinct, Taken
    <2>8. \A g \in Flows : flow'[g] # None /\ flow'[g].entry = None => Claims(g)'
      BY <2>3 DEF ClaimInv, Claims
    <2> QED BY <2>2, <2>4, <2>6, <2>7, <2>8 DEF ClaimInv
  <1>4. ASSUME NEW e \in Entries, SaveLogin(f, e) PROVE ClaimInv'
    <2>1. flow[f] \in Jobs /\ flow[f] # None
      BY <1>4 DEF SaveLogin, TypeOK
    <2>2. /\ flow'[f].account = flow[f].account /\ flow'[f].entry = flow[f].entry
          /\ flow'[f].claimed <=> flow[f].claimed
          /\ \A g \in Flows : g # f => flow'[g] = flow[g]
      BY <1>4, <2>1, SavedJob DEF SaveLogin, TypeOK
    <2>3. flow[f].entry # None
      BY <1>4 DEF SaveLogin
    <2>4. \A g \in Flows : Claims(g)' => Claims(g) /\ flow'[g].account = flow[g].account
      BY <2>1, <2>2 DEF Claims
    <2>5. \A g \in Flows : flow'[g] # None /\ flow'[g].entry = None => Claims(g)'
      BY <2>2, <2>3 DEF ClaimInv, Claims
    <2> QED BY <1>4, <2>4, <2>5, FewerClaims DEF SaveLogin
  <1>5. ASSUME NEW e \in Entries, UpdateEntry(f, e) PROVE ClaimInv'
    <2> DEFINE a == flow[f].account
    <2>1. flow' = [flow EXCEPT ![f] = None] /\ flow[f] # None
      BY <1>5 DEF UpdateEntry
    <2>2. \A g \in Flows : flow'[g] # None => g # f /\ flow'[g] = flow[g]
      BY <2>1 DEF TypeOK
    <2>3. \A g \in Flows : Claims(g)' => g # f /\ Claims(g) /\ flow'[g] = flow[g]
      BY <2>2 DEF Claims
    <2>4. \A g \in Flows : flow'[g] # None /\ flow'[g].entry = None => Claims(g)'
      BY <2>2 DEF ClaimInv, Claims
    <2>5. CASE UNCHANGED <<account, unchecked>>
      BY <2>3, <2>4, <2>5, FewerClaims
    <2>6. CASE /\ account' = [account EXCEPT ![e] = a]
               /\ unchecked' = IF account[e] = a THEN unchecked
                               ELSE IF flow[f].claimed THEN unchecked \ {e}
                               ELSE unchecked \cup {e}
      <3>1. \A i \in Entries : account'[i] = IF i = e THEN a ELSE account[i]
        BY <2>6 DEF TypeOK
      <3>2. CASE account[e] = a
        <4>1. UNCHANGED unchecked /\ \A i \in Entries : account'[i] = account[i]
          BY <2>6, <3>1, <3>2
        <4> QED BY <2>3, <2>4, <4>1, FewerClaims
      <3>3. CASE account[e] # a /\ Claims(f)
        <4>1. unchecked' = unchecked \ {e}
          BY <2>6, <3>3 DEF Claims
        <4>2. \A g \in Flows : Claims(g)' => flow[g].account # a
          BY <2>3, <3>3 DEF ClaimInv
        <4>3. \A i \in Entries : i # e /\ account[i] = a => i \in unchecked
          BY <3>3 DEF ClaimInv
        <4>4. \A g \in Flows, i \in Entries :
                Claims(g)' /\ account'[i] = flow'[g].account => i \in unchecked'
          BY <2>3, <3>1, <4>1, <4>2 DEF ClaimInv
        <4>5. AccountsDistinct'
          BY <3>1, <4>1, <4>3 DEF ClaimInv, AccountsDistinct
        <4> QED BY <2>3, <2>4, <4>4, <4>5 DEF ClaimInv
      <3>4. CASE account[e] # a /\ ~Claims(f)
        <4>1. unchecked' = unchecked \cup {e}
          BY <2>1, <2>6, <3>4 DEF Claims
        <4>2. \A g \in Flows, i \in Entries :
                Claims(g)' /\ account'[i] = flow'[g].account => i \in unchecked'
          BY <2>3, <3>1, <4>1 DEF ClaimInv
        <4>3. AccountsDistinct'
          BY <3>1, <4>1 DEF ClaimInv, AccountsDistinct
        <4> QED BY <2>3, <2>4, <4>2, <4>3 DEF ClaimInv
      <3> QED BY <3>2, <3>3, <3>4
    <2> QED BY <1>5, <2>5, <2>6 DEF UpdateEntry
  <1> QED BY <1>1, <1>2, <1>3, <1>4, <1>5 DEF FlowStep

\* Two entries have the same account only if a flow that did not check moved one.
THEOREM AccountsStayDistinct == Spec => []AccountsDistinct
  <1>1. Init => ClaimInv
    BY DEF Init, ClaimInv, Claims, AccountsDistinct
  <1>2. TypeOK /\ ClaimInv /\ [Next]_vars => ClaimInv'
    <2> SUFFICES ASSUME TypeOK, ClaimInv, [Next]_vars PROVE ClaimInv'
      OBVIOUS
    <2>1. ASSUME NEW e \in Entries, EntryStep(e) PROVE ClaimInv'
      <3>1. flow' = flow /\ unchecked' = unchecked
        BY <2>1 DEF EntryStep, BeginSetup, Seeded, FinishSetup, BeginUnload, CloseClient,
                    RemoveEntry, Save, Clear, Write, WriteLate
      <3>2. \A g \in Entries : account'[g] \in {account[g], None}
        BY <2>1 DEF EntryStep, BeginSetup, Seeded, FinishSetup, BeginUnload, CloseClient,
                    RemoveEntry, Save, Clear, Write, WriteLate, TypeOK
      <3> QED BY <3>1, <3>2, FewerClaims DEF Claims, ClaimInv
    <2>2. CASE Restart
      <3>1. \A f \in Flows : flow'[f] = None
        BY <2>2 DEF Restart
      <3> QED BY <2>2, <3>1, FewerClaims DEF Restart, Claims
    <2>3. CASE UNCHANGED vars
      BY <2>3 DEF vars, ClaimInv, Claims, AccountsDistinct
    <2> QED BY <2>1, <2>2, <2>3, FlowClaims DEF Next
  <1>3. ClaimInv => AccountsDistinct
    BY DEF ClaimInv
  <1> QED BY <1>1, <1>2, <1>3, TypeCorrect, PTL DEF Spec

-----------------------------------------------------------------------------
(* The file of an entry, its running client and a login on its way.        *)

SavedBy(f, e) == flow[f] # None /\ flow[f].entry = e /\ flow[f].saved

\* The file has a token of the account, and nothing is on its way to it.
Landed(e, a) == disk[e] # None /\ owner[disk[e]] = a /\ writes[e] = <<>> /\ late[e] = {}

\* The storage has tokens of the entry's account only, and what the running client
\* uses is what the file will have.
Settled(e) ==
  /\ \A t \in Held(e) : owner[t] = account[e]
  /\ memory[e] # None =>
       late[e] = {} /\ memory[e] = IF writes[e] = <<>> THEN disk[e] ELSE Last(writes[e])

\* A login is on the file from the moment it is saved until setup loads it.
LoginInv(e) ==
  (Exists(e) /\ e \notin disturbed) =>
    /\ \A f \in Flows : SavedBy(f, e) =>
         Landed(e, flow[f].account) /\ \A g \in Flows : SavedBy(g, e) => g = f
    /\ (e \in reload /\ ~LoginSaved(e)) => Landed(e, account[e])
    /\ ~LoginAhead(e) => Settled(e)

GoneInv(e) ==
  /\ entry[e] = "absent" => disk[e] = None /\ late[e] = {} /\ e \notin reload /\ ~InFlow(e)
  /\ (entry[e] = "removed" /\ e \notin disturbed) => disk[e] = None /\ late[e] = {}

StageInv == \A a \in Accounts : stage[a] # None => owner[stage[a]] = a

StoreInv == StageInv /\ \A e \in Entries : LoginInv(e) /\ GoneInv(e)

OwnersStay == \A t \in Tokens : owner'[t] = owner[t]

\* What LoginInv(e) and GoneInv(e) speak of stays.
EntrySame(e) ==
  /\ Exists(e)' <=> Exists(e)
  /\ entry'[e] = "absent" => entry[e] = "absent"
  /\ entry'[e] = "removed" => entry[e] = "removed"
  /\ account'[e] = account[e]
  /\ disk'[e] = disk[e] /\ memory'[e] = memory[e]
  /\ writes'[e] = writes[e] /\ late'[e] = late[e]
  /\ e \in reload' <=> e \in reload
  /\ e \in disturbed' <=> e \in disturbed

LoginsSame(e) ==
  /\ \A f \in Flows : /\ SavedBy(f, e)' <=> SavedBy(f, e)
                      /\ SavedBy(f, e) => flow'[f].account = flow[f].account
  /\ InFlow(e)' => InFlow(e) \/ entry'[e] # "absent"

\* Then they stay true, however many tokens are issued.
LEMMA Unaffected ==
  ASSUME TypeOK, NEW e \in Entries, LoginInv(e), GoneInv(e), OwnersStay,
         EntrySame(e), LoginsSame(e)
  PROVE  LoginInv(e)' /\ GoneInv(e)'
  <1>1. disk[e] # None => owner'[disk[e]] = owner[disk[e]]
    BY DEF OwnersStay, TypeOK
  <1>2. \A a : Landed(e, a)' <=> Landed(e, a)
    BY <1>1 DEF EntrySame, Landed
  <1>3. Settled(e) => Settled(e)'
    <2>1. Held(e)' = Held(e)
      BY DEF EntrySame, Held
    <2>2. \A t \in Held(e) : owner'[t] = owner[t]
      BY HeldTokens DEF OwnersStay
    <2> QED BY <2>1, <2>2 DEF Settled, EntrySame
  <1>4. LoginSaved(e)' <=> LoginSaved(e)
    BY DEF LoginSaved, LoginsSame, SavedBy
  <1>5. LoginAhead(e)' <=> LoginAhead(e)
    BY <1>4 DEF LoginAhead, EntrySame
  <1>6. LoginInv(e)'
    BY <1>2, <1>3, <1>4, <1>5 DEF LoginInv, LoginsSame, EntrySame
  <1>7. GoneInv(e)'
    BY DEF GoneInv, EntrySame, LoginsSame
  <1> QED BY <1>6, <1>7

\* The stage stays right when it loses tokens and others are issued.
LEMMA StageStays ==
  ASSUME TypeOK, StageInv, OwnersStay, \A a \in Accounts : stage'[a] \in {stage[a], None}
  PROVE  StageInv'
  BY DEF TypeOK, StageInv, OwnersStay

\* A saved login and one that waits for its setup are on the file.
LEMMA AheadLanded ==
  ASSUME NEW e \in Entries, LoginInv(e), Exists(e), e \notin disturbed, LoginAhead(e)
  PROVE  disk[e] # None /\ writes[e] = <<>> /\ late[e] = {}
  <1>1. CASE LoginSaved(e)
    <2>1. PICK f \in Flows : SavedBy(f, e)
      BY <1>1 DEF LoginSaved, SavedBy
    <2> QED BY <2>1 DEF LoginInv, Landed
  <1>2. CASE e \in reload /\ ~LoginSaved(e)
    BY <1>2 DEF LoginInv, Landed
  <1> QED BY <1>1, <1>2 DEF LoginAhead


\* The steps of a flow: a login that is saved is the last word of the file.
LEMMA FlowStore ==
  ASSUME TypeOK, StoreInv, NEW f \in Flows, FlowStep(f)
  PROVE  StoreInv'
  <1> USE NoneAssumption
  <1>1. ASSUME OwnersStay, UNCHANGED stage, \A e \in Entries : EntrySame(e) /\ LoginsSame(e)
        PROVE  StoreInv'
    BY <1>1, Unaffected, StageStays DEF StoreInv
  <1>2. ASSUME UNCHANGED <<owner, entry, account, stage, stores, reload, disturbed>>
        PROVE  OwnersStay /\ UNCHANGED stage /\ \A e \in Entries : EntrySame(e)
    BY <1>2 DEF OwnersStay, EntrySame, stores, Exists
  <1>3. ASSUME NEW e \in Entries \cup {None}, NEW a \in Accounts, Submit(f, e, a)
        PROVE  StoreInv'
    <2>1. /\ flow[f] = None /\ flow'[f].entry = e /\ ~flow'[f].saved
          /\ \A g \in Flows : g # f => flow'[g] = flow[g]
          /\ e # None => Exists(e)
      BY <1>3 DEF Submit, TypeOK
    <2>2. \A i \in Entries : LoginsSame(i)
      <3>1. \A i \in Entries, g \in Flows :
              (SavedBy(g, i)' <=> SavedBy(g, i)) /\ (SavedBy(g, i) => flow'[g] = flow[g])
        BY <2>1 DEF SavedBy
      <3>2. \A i \in Entries : InFlow(i)' => InFlow(i) \/ i = e
        BY <2>1 DEF InFlow
      <3>3. \A i \in Entries : i = e => entry'[i] # "absent"
        BY <1>3, <2>1 DEF Submit, Exists
      <3> QED BY <3>1, <3>2, <3>3 DEF LoginsSame
    <2> QED BY <1>1, <1>2, <1>3, <2>2 DEF Submit
  <1>4. CASE Refuse(f)
    <2>1. /\ ~flow[f].saved /\ flow'[f] = None
          /\ \A g \in Flows : g # f => flow'[g] = flow[g]
      BY <1>4 DEF Refuse, TypeOK
    <2>2. \A i \in Entries : LoginsSame(i)
      BY <2>1 DEF LoginsSame, SavedBy, InFlow
    <2> QED BY <1>1, <1>2, <1>4, <2>2 DEF Refuse
  <1>5. CASE CreateEntry(f)
    <2> DEFINE a == flow[f].account
    <2>1. flow[f] \in Jobs /\ a \in Accounts
      BY <1>5 DEF CreateEntry, TypeOK, Jobs
    <2>2. OwnersStay /\ owner'[Len(owner')] = a
      BY <1>5, <2>1, IssueFacts DEF CreateEntry, OwnersStay
    <2>3. PICK e \in Entries : /\ entry[e] = "absent"
                               /\ entry' = [entry EXCEPT ![e] = "not_loaded"]
                               /\ account' = [account EXCEPT ![e] = a]
      BY <1>5 DEF CreateEntry
    <2>4. UNCHANGED <<disk, memory, writes, late, reload, disturbed>>
      BY <1>5 DEF CreateEntry, stores
    <2>5. /\ flow[f].entry \notin Entries /\ flow'[f] = None
          /\ \A g \in Flows : g # f => flow'[g] = flow[g]
      BY <1>5 DEF CreateEntry, TypeOK
    <2>6. \A i \in Entries : LoginsSame(i)
      BY <2>5 DEF LoginsSame, SavedBy, InFlow
    <2>7. \A i \in Entries : i # e => EntrySame(i)
      BY <2>3, <2>4 DEF EntrySame, TypeOK, Exists
    <2>8. \A i \in Entries : i # e => LoginInv(i)' /\ GoneInv(i)'
      BY <2>2, <2>6, <2>7, Unaffected DEF StoreInv
    <2>9. LoginInv(e)' /\ GoneInv(e)'
      <3>1. disk[e] = None /\ late[e] = {} /\ e \notin reload /\ ~InFlow(e)
        BY <2>3 DEF StoreInv, GoneInv
      <3>2. memory[e] = None /\ writes[e] = <<>>
        BY <2>3 DEF TypeOK, ClientOpen
      <3>3. ~InFlow(e)' /\ ~LoginSaved(e)' /\ \A g \in Flows : ~SavedBy(g, e)'
        BY <2>5, <3>1 DEF InFlow, LoginSaved, SavedBy
      <3>4. Held(e)' = {} /\ entry'[e] = "not_loaded"
        BY <2>3, <2>4, <3>1, <3>2 DEF Held, ToSet, TypeOK
      <3> QED BY <2>4, <3>1, <3>2, <3>3, <3>4 DEF LoginInv, GoneInv, LoginAhead, Settled
    <2>10. StageInv'
      <3>1. \A b \in Accounts : stage'[b] = IF b = a THEN Len(owner') ELSE stage[b]
        BY <1>5 DEF CreateEntry, TypeOK
      <3> QED BY <2>2, <3>1 DEF StoreInv, StageInv, OwnersStay, TypeOK
    <2> QED BY <2>8, <2>9, <2>10 DEF StoreInv
  <1>6. ASSUME NEW e \in Entries, SaveLogin(f, e) PROVE StoreInv'
    <2> DEFINE a == flow[f].account
    <2>1. flow[f] \in Jobs /\ a \in Accounts /\ flow[f] # None /\ flow[f].entry = e
      BY <1>6 DEF SaveLogin, TypeOK, Jobs
    <2>2. OwnersStay /\ owner'[Len(owner')] = a /\ Len(owner') # None
      BY <1>6, <2>1, IssueFacts DEF SaveLogin, OwnersStay
    <2>3. /\ flow'[f] \in Jobs /\ flow'[f] # None
          /\ flow'[f].entry = e /\ flow'[f].account = a /\ flow'[f].saved
          /\ \A g \in Flows : g # f => flow'[g] = flow[g]
      BY <1>6, <2>1, SavedJob DEF SaveLogin, TypeOK
    <2>4. UNCHANGED <<entry, account, stage, memory, writes, late, reload>>
      BY <1>6 DEF SaveLogin
    <2>5. \A i \in Entries : i # e => EntrySame(i) /\ LoginsSame(i)
      <3>1. \A i \in Entries :
              i # e => disk'[i] = disk[i] /\ (i \in disturbed' <=> i \in disturbed)
        BY <1>6 DEF SaveLogin, TypeOK
      <3>2. \A i \in Entries : i # e => LoginsSame(i)
        BY <2>1, <2>3 DEF LoginsSame, SavedBy, InFlow
      <3> QED BY <2>4, <3>1, <3>2 DEF EntrySame, Exists
    <2>6. \A i \in Entries : i # e => LoginInv(i)' /\ GoneInv(i)'
      BY <2>2, <2>5, Unaffected DEF StoreInv
    <2>7. e \notin disturbed' => ~Shared(e)
      BY <1>6 DEF SaveLogin
    <2>8. LoginSaved(e)'
      BY <2>3 DEF LoginSaved
    <2>9. LoginInv(e)'
      <3> SUFFICES ASSUME e \notin disturbed' PROVE LoginInv(e)'
        BY DEF LoginInv
      <3>1. writes[e] = <<>> /\ late[e] = {} /\ ~LoginSaved(e)
        BY <2>7 DEF Shared
      <3>2. disk'[e] = Len(owner')
        BY <1>6 DEF SaveLogin, TypeOK
      <3>3. Landed(e, a)'
        BY <2>1, <2>2, <2>3, <2>4, <3>1, <3>2 DEF Landed
      <3>4. \A g \in Flows : SavedBy(g, e)' => g = f
        BY <2>3, <3>1 DEF SavedBy, LoginSaved
      <3> QED BY <2>3, <2>8, <3>3, <3>4 DEF LoginInv, LoginAhead
    <2>10. GoneInv(e)'
      <3>1. entry[e] # "absent"
        BY <2>1 DEF StoreInv, GoneInv, InFlow
      <3>2. entry[e] = "removed" => e \in disturbed'
        BY <2>7 DEF Shared, Exists
      <3> QED BY <2>4, <3>1, <3>2 DEF GoneInv
    <2>11. StageInv'
      BY <2>2, <2>4, StageStays DEF StoreInv
    <2> QED BY <2>6, <2>9, <2>10, <2>11 DEF StoreInv
  <1>7. ASSUME NEW e \in Entries, UpdateEntry(f, e) PROVE StoreInv'
    <2> DEFINE a == flow[f].account
    <2>1. SavedBy(f, e) /\ entry[e] # "absent"
      BY <1>7 DEF UpdateEntry, SavedBy, StoreInv, GoneInv, InFlow
    <2>2. flow'[f] = None /\ \A g \in Flows : g # f => flow'[g] = flow[g]
      BY <1>7 DEF UpdateEntry, TypeOK
    <2>3. UNCHANGED <<owner, entry, stage, stores, disturbed>>
      BY <1>7 DEF UpdateEntry
    <2>4. OwnersStay /\ StageInv'
      BY <2>3 DEF OwnersStay, StoreInv, StageInv
    <2>5. \A i \in Entries : i # e => LoginsSame(i)
      BY <2>1, <2>2 DEF LoginsSame, SavedBy, InFlow
    <2>6. \A i \in Entries :
            i # e => account'[i] = account[i] /\ (i \in reload' <=> i \in reload)
      BY <1>7 DEF UpdateEntry, TypeOK
    <2>7. \A i \in Entries : i # e => EntrySame(i)
      BY <2>3, <2>6 DEF EntrySame, Exists, stores
    <2>8. \A i \in Entries : i # e => LoginInv(i)' /\ GoneInv(i)'
      BY <2>4, <2>5, <2>7, Unaffected DEF StoreInv
    <2>9. GoneInv(e)'
      BY <2>1, <2>3 DEF StoreInv, GoneInv, stores
    <2>10. LoginInv(e)'
      <3> SUFFICES ASSUME Exists(e), e \notin disturbed PROVE LoginInv(e)'
        BY <2>3 DEF LoginInv, Exists
      <3>1. Landed(e, a) /\ \A g \in Flows : SavedBy(g, e) => g = f
        BY <2>1 DEF StoreInv, LoginInv
      <3>2. account'[e] = a /\ e \in reload'
        BY <1>7 DEF UpdateEntry, TypeOK
      <3>3. \A g \in Flows : ~SavedBy(g, e)'
        BY <2>2, <3>1 DEF SavedBy
      <3>4. Landed(e, account[e])'
        BY <2>3, <3>1, <3>2 DEF Landed, stores
      <3> QED BY <3>2, <3>3, <3>4 DEF LoginInv, LoginAhead
    <2> QED BY <2>4, <2>8, <2>9, <2>10 DEF StoreInv
  <1> QED BY <1>3, <1>4, <1>5, <1>6, <1>7 DEF FlowStep

\* The steps of an entry and of its storage.
LEMMA EntryStore ==
  ASSUME TypeOK, StoreInv, NEW e \in Entries, EntryStep(e)
  PROVE  StoreInv'
  <1> USE NoneAssumption
  <1>1. UNCHANGED flow
    BY DEF EntryStep, BeginSetup, Seeded, FinishSetup, BeginUnload, CloseClient, RemoveEntry,
           Save, Clear, Write, WriteLate
  <1>2. \A i \in Entries : /\ LoginSaved(i)' <=> LoginSaved(i)
                           /\ InFlow(i)' <=> InFlow(i)
                           /\ \A f \in Flows : SavedBy(f, i)' <=> SavedBy(f, i)
    BY <1>1 DEF LoginSaved, SavedBy, InFlow
  <1>3. \A i \in Entries : LoginsSame(i)
    BY <1>1, <1>2 DEF LoginsSame
  <1>4. OwnersStay
    <2>1. CASE Save(e)
      <3>1. owner[memory[e]] \in Accounts
        BY <2>1 DEF Save, TypeOK, Tokens
      <3> QED BY <2>1, <3>1, IssueFacts DEF Save, OwnersStay
    <2>2. CASE UNCHANGED owner
      BY <2>2 DEF OwnersStay
    <2> QED BY <2>1, <2>2 DEF EntryStep, BeginSetup, Seeded, FinishSetup, BeginUnload,
          CloseClient, RemoveEntry, Clear, Write, WriteLate
  <1>5. StageInv'
    <2>1. \A a \in Accounts : stage'[a] \in {stage[a], None}
      BY DEF EntryStep, BeginSetup, Seeded, FinishSetup, BeginUnload, CloseClient,
             RemoveEntry, Save, Clear, Write, WriteLate, stores, TypeOK
    <2> QED BY <1>4, <2>1, StageStays DEF StoreInv
  <1>6. \A i \in Entries : i # e => EntrySame(i)
    <2>1. \A i \in Entries : i # e =>
            /\ entry'[i] = entry[i] /\ account'[i] = account[i] /\ disk'[i] = disk[i]
            /\ memory'[i] = memory[i]
      BY DEF EntryStep, BeginSetup, Seeded, FinishSetup, BeginUnload, CloseClient,
             RemoveEntry, Save, Clear, Write, WriteLate, stores, TypeOK
    <2>2. \A i \in Entries : i # e => writes'[i] = writes[i] /\ late'[i] = late[i]
      BY DEF EntryStep, BeginSetup, Seeded, FinishSetup, BeginUnload, CloseClient,
             RemoveEntry, Save, Clear, Write, WriteLate, stores, TypeOK
    <2>3. \A i \in Entries : i # e => /\ i \in reload' <=> i \in reload
                                      /\ i \in disturbed' <=> i \in disturbed
      BY DEF EntryStep, BeginSetup, Seeded, FinishSetup, BeginUnload, CloseClient,
             RemoveEntry, Save, Clear, Write, WriteLate, WriteAfterLogin
    <2> QED BY <2>1, <2>2, <2>3 DEF EntrySame, Exists
  <1>7. \A i \in Entries : i # e => LoginInv(i)' /\ GoneInv(i)'
    BY <1>3, <1>4, <1>6, Unaffected DEF StoreInv
  <1>8. LoginInv(e) /\ GoneInv(e)
    BY DEF StoreInv
  <1>9. SUFFICES LoginInv(e)' /\ GoneInv(e)'
    BY <1>5, <1>7 DEF StoreInv
  <1>10. ASSUME EntrySame(e) PROVE LoginInv(e)' /\ GoneInv(e)'
    BY <1>3, <1>4, <1>8, <1>10, Unaffected
  <1>11. CASE BeginSetup(e)
    <2>1. /\ entry[e] = "not_loaded" /\ entry'[e] \in {"seeding", "setup"}
          /\ e \notin reload' /\ memory[e] = None /\ writes[e] = <<>> /\ Exists(e)
          /\ account[e] \in Accounts /\ account' = account /\ disk' = disk /\ late' = late
      <3>1. entry[e] = "not_loaded" /\ e \notin reload' /\ UNCHANGED <<account, disk, late>>
        BY <1>11 DEF BeginSetup
      <3>2. entry'[e] \in {"seeding", "setup"}
        BY <1>11 DEF BeginSetup, TypeOK
      <3>3. memory[e] = None /\ writes[e] = <<>> /\ Exists(e) /\ account[e] \in Accounts
        BY <3>1 DEF TypeOK, ClientOpen, Exists
      <3> QED BY <3>1, <3>2, <3>3
    <2>2. GoneInv(e)'
      BY <2>1 DEF GoneInv
    <2>3. SUFFICES ASSUME e \notin disturbed' PROVE LoginInv(e)'
      BY <2>2 DEF LoginInv
    <2>4. e \notin disturbed /\ late[e] = {}
      BY <1>11, <2>3 DEF BeginSetup
    <2>5. disk[e] # None => owner'[disk[e]] = owner[disk[e]] /\ disk[e] \in Held(e)
      BY <1>4 DEF OwnersStay, Held, TypeOK
    <2>6. CASE LoginSaved(e)
      <3>1. disk[e] # None
        BY <2>1, <2>4, <2>6, <1>8, AheadLanded DEF LoginAhead
      <3>2. writes' = writes
        BY <1>11, <3>1 DEF BeginSetup
      <3>3. \A f \in Flows : SavedBy(f, e)' =>
              Landed(e, flow[f].account)' /\ \A g \in Flows : SavedBy(g, e)' => g = f
        BY <1>1, <1>2, <1>8, <2>1, <2>4, <2>5, <3>2 DEF LoginInv, Landed
      <3> QED BY <1>2, <2>1, <2>6, <3>3, <1>1 DEF LoginInv, LoginAhead
    <2>7. CASE ~LoginSaved(e)
      <3>1. disk[e] # None => owner[disk[e]] = account[e]
        BY <1>8, <2>1, <2>4, <2>5, <2>7 DEF LoginInv, LoginAhead, Landed, Settled
      <3>2. Settled(e)'
        <4>1. CASE disk[e] = None /\ stage[account[e]] # None
          <5> DEFINE t == stage[account[e]]
          <5>1. memory'[e] = t /\ writes'[e] = <<t>> /\ t \in Tokens
            BY <1>11, <2>1, <4>1 DEF BeginSetup, TypeOK
          <5>2. owner'[t] = account[e]
            BY <1>4, <2>1, <4>1, <5>1 DEF OwnersStay, StoreInv, StageInv
          <5>3. Held(e)' \subseteq {t} /\ Last(<<t>>) = t /\ <<t>> # <<>>
            BY <2>1, <2>4, <4>1, <5>1 DEF Held, ToSet, Last
          <5>4. late'[e] = {} /\ account'[e] = account[e]
            BY <2>1, <2>4
          <5> HIDE DEF t
          <5> QED BY <5>1, <5>2, <5>3, <5>4 DEF Settled
        <4>2. CASE ~(disk[e] = None /\ stage[account[e]] # None)
          <5>1. memory'[e] = disk[e] /\ writes'[e] = <<>>
            BY <1>11, <2>1, <4>2 DEF BeginSetup, TypeOK
          <5>2. Held(e)' \subseteq {disk[e]} \ {None}
            BY <2>1, <2>4, <5>1 DEF Held, ToSet
          <5> QED BY <2>1, <2>4, <2>5, <3>1, <5>1, <5>2 DEF Settled
        <4> QED BY <4>1, <4>2
      <3>3. \A f \in Flows : ~SavedBy(f, e)'
        BY <1>2, <2>7 DEF LoginSaved, SavedBy
      <3> QED BY <2>1, <3>2, <3>3 DEF LoginInv
    <2> QED BY <2>6, <2>7
  <1>12. CASE Seeded(e) \/ FinishSetup(e) \/ BeginUnload(e)
    <2>1. EntrySame(e)
      BY <1>12 DEF Seeded, FinishSetup, BeginUnload, EntrySame, stores, Exists, TypeOK
    <2> QED BY <1>10, <2>1
  <1>13. CASE CloseClient(e)
    <2>1. /\ Exists(e) /\ entry'[e] = "not_loaded" /\ Exists(e)'
          /\ memory'[e] = None /\ writes'[e] = <<>> /\ late'[e] = late[e] \cup ToSet(writes[e])
          /\ UNCHANGED <<owner, account, disk, reload, disturbed>>
      BY <1>13 DEF CloseClient, Exists, TypeOK
    <2>2. GoneInv(e)'
      BY <2>1 DEF GoneInv
    <2>3. SUFFICES ASSUME e \notin disturbed PROVE LoginInv(e)'
      BY <2>1, <2>2 DEF LoginInv
    <2>4. CASE LoginAhead(e)
      <3>1. writes[e] = <<>> /\ late[e] = {} /\ late'[e] = {}
        BY <1>8, <2>1, <2>3, <2>4, AheadLanded DEF ToSet
      <3>2. \A a : Landed(e, a)' <=> Landed(e, a)
        BY <2>1, <3>1 DEF Landed
      <3> QED BY <1>1, <1>2, <1>8, <2>1, <2>3, <2>4, <3>2 DEF LoginInv, LoginAhead
    <2>5. CASE ~LoginAhead(e)
      <3>1. Held(e)' \subseteq Held(e)
        BY <2>1 DEF Held, ToSet
      <3>2. Settled(e)'
        BY <1>8, <2>1, <2>3, <2>5, <3>1 DEF LoginInv, Settled
      <3> QED BY <1>2, <2>1, <2>5, <3>2 DEF LoginInv, LoginAhead, LoginSaved, SavedBy
    <2> QED BY <2>4, <2>5
  <1>14. CASE RemoveEntry(e)
    <2>1. /\ entry'[e] = "removed" /\ disk'[e] = None /\ late' = late
          /\ late[e] # {} => e \in disturbed'
      BY <1>14 DEF RemoveEntry, TypeOK
    <2> QED BY <2>1 DEF LoginInv, GoneInv, Exists
  <1>15. CASE Save(e)
    <2> DEFINE n == Len(owner')
    <2>1. memory[e] \in Tokens /\ owner[memory[e]] \in Accounts /\ memory[e] # None
      BY <1>15 DEF Save, TypeOK, Tokens
    <2>2. Issue(owner[memory[e]])
      BY <1>15 DEF Save
    <2>3. Tokens \subseteq Tokens' /\ n \in Tokens' /\ owner'[n] = owner[memory[e]] /\ n # None
      BY <2>1, <2>2, IssueFacts
    <2>4. writes[e] \in Seq(Tokens')
      BY <2>3, SeqGrows DEF TypeOK
    <2>5. /\ writes'[e] = Append(writes[e], n) /\ memory'[e] = n
          /\ UNCHANGED <<entry, account, disk, late, reload>> /\ Exists(e)
      BY <1>15 DEF Save, TypeOK, ClientOpen, Exists
    <2>6. /\ ToSet(writes'[e]) = ToSet(writes[e]) \cup {n}
          /\ writes'[e] # <<>> /\ Last(writes'[e]) = n
      BY <2>3, <2>4, <2>5, SetOfAppend
    <2>7. GoneInv(e)'
      BY <2>5 DEF GoneInv, Exists
    <2>8. SUFFICES ASSUME e \notin disturbed' PROVE LoginInv(e)'
      BY <2>7 DEF LoginInv
    <2>9. e \notin disturbed /\ ~LoginAhead(e)
      BY <1>15, <2>8 DEF Save, WriteAfterLogin
    <2>10. Settled(e)
      BY <1>8, <2>5, <2>9 DEF LoginInv
    <2>11. memory[e] \in Held(e) /\ Held(e)' \subseteq Held(e) \cup {n}
      BY <2>1, <2>5, <2>6 DEF Held
    <2>12. \A t \in Held(e) : owner'[t] = account[e]
      BY <1>4, <2>10, HeldTokens DEF OwnersStay, Settled
    <2>13. Settled(e)'
      BY <2>1, <2>3, <2>5, <2>6, <2>10, <2>11, <2>12 DEF Settled
    <2>14. ~LoginSaved(e) /\ \A f \in Flows : ~SavedBy(f, e)'
      BY <1>2, <2>9 DEF LoginAhead, LoginSaved, SavedBy
    <2> QED BY <1>2, <2>5, <2>9, <2>13, <2>14 DEF LoginInv, LoginAhead
  <1>16. CASE Clear(e)
    <2>1. /\ memory'[e] = None /\ late'[e] = late[e] \cup {None}
          /\ UNCHANGED <<owner, entry, account, disk, writes, reload>> /\ Exists(e)
      BY <1>16 DEF Clear, TypeOK, ClientOpen, Exists
    <2>2. GoneInv(e)'
      BY <2>1 DEF GoneInv, Exists
    <2>3. SUFFICES ASSUME e \notin disturbed' PROVE LoginInv(e)'
      BY <2>2 DEF LoginInv
    <2>4. e \notin disturbed /\ ~LoginAhead(e)
      BY <1>16, <2>3 DEF Clear, WriteAfterLogin
    <2>5. Held(e)' \subseteq Held(e)
      BY <2>1 DEF Held
    <2>6. Settled(e)'
      BY <1>8, <2>1, <2>4, <2>5 DEF LoginInv, Settled
    <2>7. \A f \in Flows : ~SavedBy(f, e)'
      BY <1>2, <2>4 DEF LoginAhead, LoginSaved, SavedBy
    <2> QED BY <1>2, <2>1, <2>4, <2>6, <2>7 DEF LoginInv, LoginAhead
  <1>17. CASE Write(e)
    <2>1. writes[e] \in Seq(Tokens) /\ writes[e] # <<>> /\ Exists(e)
      BY <1>17 DEF Write, TypeOK, ClientOpen, Exists
    <2>2. /\ Head(writes[e]) \in ToSet(writes[e])
          /\ ToSet(Tail(writes[e])) \subseteq ToSet(writes[e])
          /\ Tail(writes[e]) # <<>> => Last(Tail(writes[e])) = Last(writes[e])
          /\ Tail(writes[e]) = <<>> => Head(writes[e]) = Last(writes[e])
      BY <2>1, SetOf
    <2>3. /\ writes'[e] = Tail(writes[e]) /\ disk'[e] = Head(writes[e])
          /\ UNCHANGED <<owner, entry, account, memory, late, reload, disturbed>>
      BY <1>17 DEF Write, TypeOK
    <2>4. GoneInv(e)'
      BY <2>1, <2>3 DEF GoneInv, Exists
    <2>5. SUFFICES ASSUME e \notin disturbed PROVE LoginInv(e)'
      BY <2>3, <2>4 DEF LoginInv
    <2>6. ~LoginAhead(e)
      BY <1>8, <2>1, <2>5, AheadLanded
    <2>7. Settled(e)
      BY <1>8, <2>1, <2>5, <2>6 DEF LoginInv
    <2>8. Held(e)' \subseteq Held(e)
      BY <2>2, <2>3 DEF Held
    <2>9. Settled(e)'
      BY <2>1, <2>2, <2>3, <2>7, <2>8 DEF Settled
    <2>10. \A f \in Flows : ~SavedBy(f, e)'
      BY <1>2, <2>6 DEF LoginAhead, LoginSaved, SavedBy
    <2> QED BY <1>2, <2>3, <2>6, <2>9, <2>10 DEF LoginInv, LoginAhead
  <1>18. CASE WriteLate(e)
    <2>1. PICK what \in late[e] : /\ disk' = [disk EXCEPT ![e] = what]
                                  /\ late' = [late EXCEPT ![e] = @ \ {what}]
      BY <1>18 DEF WriteLate
    <2>2. /\ disk'[e] = what /\ late'[e] = late[e] \ {what} /\ late[e] # {}
          /\ UNCHANGED <<owner, entry, account, memory, writes, reload, disturbed>>
      BY <1>18, <2>1 DEF WriteLate, TypeOK
    <2>3. GoneInv(e)'
      BY <1>8, <2>2 DEF GoneInv
    <2>4. SUFFICES ASSUME Exists(e), e \notin disturbed PROVE LoginInv(e)'
      BY <2>2, <2>3 DEF LoginInv, Exists
    <2>5. ~LoginAhead(e)
      BY <1>8, <2>2, <2>4, AheadLanded
    <2>6. Settled(e)
      BY <1>8, <2>4, <2>5 DEF LoginInv
    <2>7. Held(e)' \subseteq Held(e)
      BY <2>1, <2>2 DEF Held
    <2>8. Settled(e)'
      BY <2>2, <2>6, <2>7 DEF Settled
    <2>9. \A f \in Flows : ~SavedBy(f, e)'
      BY <1>2, <2>5 DEF LoginAhead, LoginSaved, SavedBy
    <2> QED BY <1>2, <2>2, <2>5, <2>8, <2>9 DEF LoginInv, LoginAhead
  <1> QED BY <1>11, <1>12, <1>13, <1>14, <1>15, <1>16, <1>17, <1>18 DEF EntryStep

\* After a restart the files are what is left; a login it cut in two is recorded.
LEMMA RestartStore == TypeOK /\ StoreInv /\ Restart => StoreInv'
  <1> SUFFICES ASSUME TypeOK, StoreInv, Restart PROVE StoreInv'
    OBVIOUS
  <1>1. StageInv'
    BY DEF Restart, StageInv
  <1>2. ASSUME NEW e \in Entries PROVE LoginInv(e)' /\ GoneInv(e)'
    <2>1. /\ Exists(e)' <=> Exists(e)
          /\ entry'[e] = "absent" => entry[e] = "absent"
          /\ entry'[e] = "removed" => entry[e] = "removed"
      BY DEF Restart, Exists
    <2>2. /\ memory'[e] = None /\ writes'[e] = <<>> /\ late'[e] = {} /\ e \notin reload'
          /\ UNCHANGED <<owner, account, disk>>
      BY DEF Restart
    <2>3. ~InFlow(e)' /\ ~LoginSaved(e)' /\ \A f \in Flows : ~SavedBy(f, e)'
      BY DEF Restart, InFlow, LoginSaved, SavedBy
    <2>4. GoneInv(e)'
      BY <2>1, <2>2, <2>3 DEF StoreInv, GoneInv, Restart
    <2>5. SUFFICES ASSUME Exists(e), e \notin disturbed' PROVE LoginInv(e)'
      BY <2>1, <2>4 DEF LoginInv
    <2>6. e \notin disturbed /\ ~LoginSaved(e)
      BY <2>5 DEF Restart
    <2>7. Held(e)' \subseteq {disk[e]} \ {None}
      BY <2>2 DEF Held, ToSet
    <2>8. disk[e] # None => owner[disk[e]] = account[e]
      <3>1. disk[e] # None => disk[e] \in Held(e)
        BY DEF Held
      <3> QED BY <2>5, <2>6, <3>1 DEF StoreInv, LoginInv, LoginAhead, Landed, Settled
    <2>9. Settled(e)'
      BY <2>2, <2>7, <2>8 DEF Settled
    <2> QED BY <2>2, <2>3, <2>9 DEF LoginInv
  <1> QED BY <1>1, <1>2 DEF StoreInv

\* The files, the clients and the logins on their way agree throughout.
THEOREM StoresAreRight == Spec => []StoreInv
  <1>1. Init => StoreInv
    BY DEF Init, StoreInv, StageInv, LoginInv, GoneInv, Exists, InFlow
  <1>2. TypeOK /\ StoreInv /\ [Next]_vars => StoreInv'
    <2>1. TypeOK /\ StoreInv /\ UNCHANGED vars => StoreInv'
      <3> SUFFICES ASSUME TypeOK, StoreInv, UNCHANGED vars PROVE StoreInv'
        OBVIOUS
      <3>1. OwnersStay /\ UNCHANGED stage
        BY DEF vars, OwnersStay
      <3>2. \A e \in Entries : EntrySame(e) /\ LoginsSame(e)
        BY DEF vars, stores, EntrySame, LoginsSame, Exists, InFlow, SavedBy
      <3> QED BY <3>1, <3>2, Unaffected, StageStays DEF StoreInv
    <2> QED BY <2>1, FlowStore, EntryStore, RestartStore DEF Next
  <1> QED BY <1>1, <1>2, TypeCorrect, PTL DEF Spec

\* A loaded entry works for its account.
THEOREM LoadedForItsAccount == Spec => []LoadedAccount
  <1>1. TypeOK /\ StoreInv => LoadedAccount
    <2> SUFFICES ASSUME TypeOK, StoreInv, NEW e \in Entries, entry[e] = "loaded",
                        ~LoginAhead(e), e \notin disturbed, memory[e] # None
                 PROVE  owner[memory[e]] = account[e]
      BY DEF LoadedAccount
    <2>1. memory[e] \in Held(e) /\ Exists(e)
      BY DEF Held, Exists
    <2> QED BY <2>1 DEF StoreInv, LoginInv, Settled
  <1> QED BY <1>1, TypeCorrect, StoresAreRight, PTL

\* What a running client uses survives a restart once its saves have landed.
THEOREM TokensAreDurable == Spec => []TokensDurable
  <1>1. StoreInv => TokensDurable
    BY DEF StoreInv, LoginInv, Settled, TokensDurable, ClientOpen, Exists
  <1> QED BY <1>1, StoresAreRight, PTL

\* A removed entry leaves no tokens behind.
THEOREM RemovedLeavesNothing == Spec => []RemovedForGood
  <1>1. StoreInv => RemovedForGood
    BY DEF StoreInv, GoneInv, RemovedForGood
  <1> QED BY <1>1, StoresAreRight, PTL

=============================================================================
