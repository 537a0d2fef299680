-------------------------- MODULE GatewayState_proof ---------------------------
(***************************************************************************)
(* What Gateway keeps for itself is sound, for any number of requests of   *)
(* any kinds, wallets, tokens, pools, faults and crashes.                  *)
(*                                                                         *)
(* First the files: what every step, of whatever request, can do to them,  *)
(* and the invariant that these few kinds of steps keep.                   *)
(***************************************************************************)
EXTENDS GatewayState, FiniteSetTheorems, FunctionTheorems, TLAPS

LEMMA NamesAreFinite ==
  /\ IsFiniteSet(Lists) /\ IsFiniteSet(Names)
  /\ Cardinality(Lists) \in Nat /\ Cardinality(Names) \in Nat /\ Cardinality(Requests) \in Nat
  /\ Cardinality(Lists) <= Cardinality(Names)
  /\ Cardinality(Names) > 0
<1>1. IsFiniteSet({"tokens", "pools", "hardware"}) /\ IsFiniteSet({"tokens.tmp", "pools.tmp"})
  <2>1. IsFiniteSet({}) BY FS_EmptySet
  <2>2. IsFiniteSet({} \cup {"tokens"}) BY <2>1, FS_AddElement
  <2>3. IsFiniteSet(({} \cup {"tokens"}) \cup {"pools"}) BY <2>2, FS_AddElement
  <2>4. IsFiniteSet((({} \cup {"tokens"}) \cup {"pools"}) \cup {"hardware"}) BY <2>3, FS_AddElement
  <2>5. IsFiniteSet({} \cup {"tokens.tmp"}) BY <2>1, FS_AddElement
  <2>6. IsFiniteSet(({} \cup {"tokens.tmp"}) \cup {"pools.tmp"}) BY <2>5, FS_AddElement
  <2>7. /\ {"tokens", "pools", "hardware"} = (({} \cup {"tokens"}) \cup {"pools"}) \cup {"hardware"}
        /\ {"tokens.tmp", "pools.tmp"} = ({} \cup {"tokens.tmp"}) \cup {"pools.tmp"}
    OBVIOUS
  <2> QED BY <2>4, <2>6, <2>7
<1>2. IsFiniteSet(KeyFiles) /\ IsFiniteSet(Requests) BY FilesAssumption
<1>3. IsFiniteSet(Lists) BY <1>1, <1>2, FS_Union DEF Lists
<1>4. {Temp[d] : d \in DOMAIN Temp} = {"tokens.tmp", "pools.tmp"} BY DEF Temp
<1>5. IsFiniteSet(Names) BY <1>1, <1>3, <1>4, FS_Union DEF Names
<1>6. Lists \in SUBSET Names BY DEF Names
<1>7. Cardinality(Lists) <= Cardinality(Names) BY <1>5, <1>6, FS_Subset
<1>8. Cardinality(Lists) \in Nat /\ Cardinality(Names) \in Nat /\ Cardinality(Requests) \in Nat
  BY <1>2, <1>3, <1>5, FS_CardinalityType
<1>9. Names # {} BY DEF Names, Lists
<1>10. Cardinality(Names) # 0 BY <1>5, <1>9, FS_EmptySet
<1> QED BY <1>3, <1>5, <1>7, <1>8, <1>10

LEMMA FaultsAreBounded == MaxFaults \in Nat
BY FilesAssumption

\* Which names there are, and which list each belongs to.
LEMMA NamesOfLists ==
  /\ \A d \in Lists : d \in Names /\ ListOf(d) = d /\ SavesTo(d) \in Names /\ ListOf(SavesTo(d)) = d
  /\ \A n \in Names : ListOf(n) \in Lists /\ (n \notin Lists => ListOf(n) \in DOMAIN Temp /\ n = Temp[ListOf(n)])
  /\ \A d \in Lists : d \in DOMAIN Temp => SavesTo(d) \notin Lists
  /\ \A d \in Lists \ DOMAIN Temp : SavesTo(d) = d
  /\ \A m, n \in Names : ListOf(m) = ListOf(n) /\ (m \in Lists <=> n \in Lists) => m = n
  /\ {"tokens", "pools", "hardware"} \subseteq Lists /\ KeyFiles \subseteq Lists
  /\ DOMAIN Temp = {"tokens", "pools"}
<1>1. DOMAIN Temp = {"tokens", "pools"} /\ Temp["tokens"] = "tokens.tmp" /\ Temp["pools"] = "pools.tmp" BY DEF Temp
<1>2. Names = Lists \cup {"tokens.tmp", "pools.tmp"} BY <1>1 DEF Names
<1>3. "tokens.tmp" \notin Lists /\ "pools.tmp" \notin Lists BY FilesAssumption DEF Lists
<1>4. \A d \in Lists : ListOf(d) = d BY <1>3 DEF ListOf
<1>5. ListOf("tokens.tmp") = "tokens" /\ ListOf("pools.tmp") = "pools" BY DEF ListOf
<1>6. {"tokens", "pools", "hardware"} \subseteq Lists /\ KeyFiles \subseteq Lists BY DEF Lists
<1> QED BY <1>1, <1>2, <1>3, <1>4, <1>5, <1>6 DEF SavesTo

\* There is always an inode left for a new file.
LEMMA InodeIsLeft ==
  ASSUME entry \in [Names -> Inodes \cup {NoFile}], fd \in [Requests -> Inodes \cup {NoFile}],
         NEW n \in Names, entry[n] = NoFile
  PROVE  Fresh \in Inodes /\ Fresh \in Unused
<1> DEFINE E == {entry[m] : m \in Names}
           D == {fd[q] : q \in Requests}
<1>1. IsFiniteSet(E) /\ Cardinality(E) <= Cardinality(Names)
  <2>1. entry \in Surjection(Names, E) BY DEF Surjection
  <2> QED BY <2>1, NamesAreFinite, FS_Surjection
<1>2. IsFiniteSet(D) /\ Cardinality(D) <= Cardinality(Requests)
  <2>1. fd \in Surjection(Requests, D) BY DEF Surjection
  <2> QED BY <2>1, FilesAssumption, FS_Surjection
<1>3. /\ IsFiniteSet(E \cup D)
      /\ Cardinality(E \cup D) = Cardinality(E) + Cardinality(D) - Cardinality(E \cap D)
  BY <1>1, <1>2, FS_Union
<1>4. IsFiniteSet(E \cap D) BY <1>1, FS_Subset
<1>5. Cardinality(E) \in Nat /\ Cardinality(D) \in Nat /\ Cardinality(E \cap D) \in Nat
  BY <1>1, <1>2, <1>4, FS_CardinalityType
<1>6. Cardinality(E \cup D) <= Cardinality(Names) + Cardinality(Requests)
  BY <1>1, <1>2, <1>3, <1>5, NamesAreFinite
<1>7. /\ IsFiniteSet((E \cup D) \ {NoFile})
      /\ Cardinality((E \cup D) \ {NoFile}) = Cardinality(E \cup D) - 1
  <2> DEFINE U == E \cup D
  <2>1. NoFile \in U OBVIOUS
  <2>2. IsFiniteSet(U) BY <1>3
  <2> HIDE DEF U
  <2>3. IsFiniteSet(U \ {NoFile}) /\ Cardinality(U \ {NoFile}) = Cardinality(U) - 1
    BY <2>1, <2>2, FS_RemoveElement
  <2> QED BY <2>3 DEF U
<1>8. /\ IsFiniteSet(Inodes) /\ Cardinality(Inodes) = Cardinality(Names) + Cardinality(Requests)
  <2>1. Cardinality(Names) + Cardinality(Requests) \in Int BY NamesAreFinite
  <2> QED BY <2>1, FS_Interval, NamesAreFinite DEF Inodes
<1>9. ~(Inodes \subseteq (E \cup D) \ {NoFile})
  <2> SUFFICES ASSUME Inodes \subseteq (E \cup D) \ {NoFile} PROVE FALSE OBVIOUS
  <2>1. Cardinality(Inodes) <= Cardinality((E \cup D) \ {NoFile}) BY <1>7, FS_Subset
  <2>2. Cardinality(E \cup D) \in Nat BY <1>3, FS_CardinalityType
  <2> QED BY <2>1, <2>2, <1>6, <1>7, <1>8, NamesAreFinite
<1>10. PICK i \in Inodes : i \notin (E \cup D) \ {NoFile} BY <1>9
<1>11. i # NoFile BY DEF Inodes, NoFile
<1>12. i \in Unused BY <1>10, <1>11 DEF Unused
<1> QED BY <1>12 DEF Fresh, Unused

-----------------------------------------------------------------------------
\* What is on a list, or in a key file.
Entries == {HardwareEntry(a) : a \in KeyFiles}
ListsFor(d) ==
  IF d = "tokens" THEN TokenLists ELSE IF d = "pools" THEN PoolLists
  ELSE IF d = "hardware" THEN SUBSET Entries ELSE {{}, Legacy, Hardened}

\* What a request may remember.
Contents == [state : {"whole", "empty", "part", "absent", "not read"}, list : SUBSET Elements]
Holds == [flag : BOOLEAN, old : SUBSET (Pools \cup KeyFiles), rest : Seq(Tokens), read : Contents]

SavingSteps == {"open", "write", "rename"}
Savers == TokenOps \cup PoolOps \cup WalletOps \cup SwapOps

\* What a request of some kind remembers at some step: it reads the list that it needs then.
Fits(o, s, h) ==
  /\ s = "tokenAdd" => h.rest # << >>
  /\ o \in TokenOps \/ s = "tokenAdd" => h.read.list \in TokenLists
  /\ o \in PoolOps \cup SwapOps /\ s \notin {"tokenAdd", "done"} => h.read.list \in PoolLists

\* The steps of a request between two saves.
StepsOf(o) ==
  {s \in Steps : \/ o \in TokenOps /\ s \in TokenSteps
                 \/ o \in PoolOps /\ s \in PoolSteps
                 \/ o \in WalletOps /\ s \in WalletSteps
                 \/ o \in InstanceOps /\ s \in InstanceSteps
                 \/ o \in FeeOps \cup RpcOps /\ s \in FeeSteps
                 \/ o \in LedgerOps /\ s \in LedgerSteps}
Goals(o) == {"start", "done"} \cup (StepsOf(o) \ {"tokenAdd"})

RequestsTyped ==
  /\ op \in [Requests -> Ops]
  /\ arg = [r \in Requests |-> arg[r]]
  /\ \A r \in Requests : arg[r] \in ArgsOf(op[r])

FilesTyped ==
  /\ pc \in [Requests -> Steps \cup SavingSteps \cup {"start", "done"}]
  /\ held \in [Requests -> Holds]
  /\ target \in [Requests -> Names]
  /\ list \in [Requests -> SUBSET Elements]
  /\ next \in [Requests -> Steps \cup {"start", "done"}]
  /\ fd \in [Requests -> Inodes \cup {NoFile}]
  /\ entry \in [Names -> Inodes \cup {NoFile}]
  /\ data \in [Inodes -> [state : {"whole", "empty", "part"}, list : SUBSET Elements]]
  /\ answer \in [Requests -> Answers]
  /\ expected \in [Lists -> SUBSET Elements]
  /\ clash \subseteq Lists \cup Marks
  /\ torn \subseteq Lists
  /\ up \in BOOLEAN /\ faults \in Nat /\ crashes \in Nat /\ faults + crashes <= MaxFaults

LifeInv ==
  \A r \in Requests :
    /\ pc[r] \in {"start", "done"} \cup SavingSteps \cup StepsOf(op[r])
    /\ pc[r] \in SavingSteps => op[r] \in Savers
    /\ Fits(op[r], pc[r], held[r])
    /\ next[r] \in Goals(op[r])

\* A request has a file open while it writes, and a file is open only to requests that write
\* the same list.
DescriptorInv ==
  /\ \A r \in Requests : pc[r] = "write" <=> fd[r] # NoFile
  /\ \A r \in Requests : pc[r] = "rename" => target[r] \notin Lists
  /\ \A r \in Requests : pc[r] \in SavingSteps => target[r] \notin DOMAIN Temp
  /\ \A r \in Requests, n \in Names : fd[r] # NoFile /\ entry[n] = fd[r] => ListOf(n) = ListOf(target[r])
  /\ \A p, q \in Requests : fd[p] # NoFile /\ fd[p] = fd[q] => ListOf(target[p]) = ListOf(target[q])

\* No two names have the same file.
EntryInv == \A m, n \in Names : entry[m] # NoFile /\ entry[m] = entry[n] => m = n

\* What was written, and is written, is what such a list can be.
ContentInv ==
  /\ \A n \in Names : entry[n] # NoFile => data[entry[n]].list \in ListsFor(ListOf(n))
  /\ \A r \in Requests : list[r] \in ListsFor(ListOf(target[r]))
  /\ \A d \in Lists : expected[d] \in ListsFor(d)

\* Where no two changes overlapped, a file is written by one request, from the beginning.
AloneInv ==
  \A d \in Lists \ clash : \A p, q \in Requests : Saving(p, d) /\ Saving(q, d) => p = q
WrittenInv ==
  \A r \in Requests : ListOf(target[r]) \notin clash =>
    /\ pc[r] = "write" => entry[target[r]] = fd[r] /\ data[fd[r]].state = "empty"
    /\ pc[r] = "rename" => entry[target[r]] # NoFile /\ data[entry[target[r]]] = Whole(list[r])

SavedInv ==
  \A d \in Lists \ clash :
    \/ entry[d] = NoFile
    \/ data[entry[d]] = Whole(expected[d])
    \/ d \notin DOMAIN Temp /\ (d \in torn \/ \E r \in Requests : pc[r] = "write" /\ target[r] = d)

FilesInv ==
  /\ RequestsTyped /\ FilesTyped /\ LifeInv /\ DescriptorInv /\ EntryInv /\ ContentInv
  /\ AloneInv /\ WrittenInv /\ SavedInv

-----------------------------------------------------------------------------
\* The kinds of steps.  Between two saves:
Between(r) ==
  /\ pc[r] \notin SavingSteps
  /\ \E s \in {pc[r], "done"} \cup StepsOf(op[r]), h \in Holds :
       /\ pc' = [pc EXCEPT ![r] = s] /\ held' = [held EXCEPT ![r] = h]
       /\ Fits(op[r], s, h)
  /\ \E a \in Answers : answer' = [answer EXCEPT ![r] = a]
  /\ clash \subseteq clash' /\ clash' \subseteq Lists \cup Marks
  /\ faults' \in Nat /\ faults <= faults' /\ faults' + crashes <= MaxFaults
  /\ UNCHANGED <<op, arg, target, list, next, fd, entry, data, expected, torn, up, crashes>>

\* A save is begun; the step before it marks an overlap.
BeginsSave(r) ==
  /\ pc[r] \notin SavingSteps /\ op[r] \in Savers
  /\ \E d \in Lists : \E l \in ListsFor(d), n \in Goals(op[r]), h \in Holds :
       /\ pc' = [pc EXCEPT ![r] = "open"]
       /\ target' = [target EXCEPT ![r] = SavesTo(d)]
       /\ list' = [list EXCEPT ![r] = l]
       /\ next' = [next EXCEPT ![r] = n]
       /\ held' = [held EXCEPT ![r] = h] /\ Fits(op[r], "open", h)
       /\ clash \subseteq clash' /\ clash' \subseteq Lists \cup Marks
       /\ (\E q \in Requests \ {r} : Saving(q, d)) => d \in clash'
  /\ UNCHANGED <<op, arg, fd, answer, entry, data, expected, torn, faultVars>>

\* A key file is removed.
Removes(r) ==
  /\ pc[r] \notin SavingSteps /\ op[r] \in WalletOps
  /\ \E d \in KeyFiles, s \in {"done"} \cup (StepsOf(op[r]) \ {"tokenAdd"}), h \in Holds :
       Fits(op[r], s, h) /\ Unlink(r, d, s, h)

\* A step of a save itself, which may fail.
SavesOn(r) ==
  \/ Open(r) \/ Write(r)
  \/ \E swallows \in BOOLEAN, status \in Answers : Rename(r, swallows, status) \/ WriteFails(r, swallows, status)

\* Meteora's pool is there for all that await it.
LoadEnds(r) ==
  /\ pc[r] = "loading"
  /\ pc' = [q \in Requests |-> IF q = r \/ pc[q] = "awaiting" THEN "done" ELSE pc[q]]
  /\ answer' \in [Requests -> Answers]
  /\ \A q \in Requests : q # r /\ pc[q] # "awaiting" => answer'[q] = answer[q]
  /\ UNCHANGED <<op, arg, held, target, list, next, fd, fileVars, faultVars>>

OwnStep(r) == pc[r] # "done" /\ (Between(r) \/ BeginsSave(r) \/ Removes(r) \/ SavesOn(r))
RequestStep(r) == OwnStep(r) \/ LoadEnds(r)

\* What happens to no request, or to all of them.
OtherStep ==
  \/ UNCHANGED <<requestVars, fileVars, faultVars>>
  \/ CrashFiles
  \/ up' = TRUE /\ UNCHANGED <<requestVars, fileVars, faults, crashes>>

-----------------------------------------------------------------------------
\* Each of them keeps the invariant.
LEMMA StepsAreApart ==
  /\ Steps \cap SavingSteps = {} /\ "start" \notin SavingSteps /\ "done" \notin SavingSteps
  /\ \A o : StepsOf(o) \subseteq Steps
  /\ \A o : Goals(o) \subseteq (Steps \cup {"start", "done"}) \ {"tokenAdd"}
BY DEF Steps, SavingSteps, StepsOf, Goals, TokenSteps, PoolSteps, WalletSteps, InstanceSteps, FeeSteps, LedgerSteps

LEMMA ListsHaveElements ==
  ASSUME NEW d, NEW l \in ListsFor(d)
  PROVE  l \subseteq Elements
<1>1. CASE l \in TokenLists BY <1>1 DEF TokenLists, Elements
<1>2. CASE l \in PoolLists BY <1>2 DEF PoolLists, Elements
<1>3. CASE l \in SUBSET Entries BY <1>3 DEF Entries, Elements
<1>4. CASE l \in {{}, Legacy, Hardened}
  BY <1>4 DEF Legacy, Hardened, Ciphers, Elements
<1> QED BY <1>1, <1>2, <1>3, <1>4 DEF ListsFor

\* What fits a step fits all but one that adds a token, and the end.
LEMMA FitsStay ==
  ASSUME NEW o, NEW s, NEW h, Fits(o, s, h)
  PROVE  /\ Fits(o, "done", h)
         /\ s \notin {"tokenAdd", "done"} => \A t : t # "tokenAdd" => Fits(o, t, h)
BY DEF Fits

LEMMA BetweenKeeps ==
  ASSUME FilesInv, NEW r \in Requests, Between(r)
  PROVE  FilesInv'
<1>1. PICK s \in {pc[r], "done"} \cup StepsOf(op[r]), h \in Holds :
        /\ pc' = [pc EXCEPT ![r] = s] /\ held' = [held EXCEPT ![r] = h]
        /\ Fits(op[r], s, h)
  BY DEF Between
<1>2. PICK a \in Answers : answer' = [answer EXCEPT ![r] = a] BY DEF Between
<1>4. pc \in [Requests -> Steps \cup SavingSteps \cup {"start", "done"}] /\ pc[r] \notin SavingSteps
  BY DEF FilesInv, FilesTyped, Between
<1>3. s \in Steps \cup {"start", "done"} /\ s \notin SavingSteps BY <1>4, StepsAreApart
<1>5. /\ UNCHANGED <<op, arg, target, list, next, fd, entry, data, expected, torn, up, crashes>>
      /\ clash \subseteq clash'
  BY DEF Between
<1>6. \A q \in Requests, x \in SavingSteps : pc'[q] = x <=> pc[q] = x BY <1>1, <1>3, <1>4
<1>7. \A d : \A q \in Requests : Saving(q, d)' <=> Saving(q, d) BY <1>5, <1>6 DEF Saving, SavingSteps
<1>8. RequestsTyped' BY <1>5 DEF FilesInv, RequestsTyped
<1>9. FilesTyped' BY <1>1, <1>2, <1>3 DEF FilesInv, FilesTyped, Between
<1>10. LifeInv'
  <2> SUFFICES ASSUME NEW q \in Requests
               PROVE  /\ pc'[q] \in {"start", "done"} \cup SavingSteps \cup StepsOf(op[q])
                      /\ pc'[q] \in SavingSteps => op[q] \in Savers
                      /\ Fits(op[q], pc'[q], held'[q])
                      /\ next[q] \in Goals(op[q])
    BY <1>5 DEF LifeInv
  <2>1. held \in [Requests -> Holds] BY DEF FilesInv, FilesTyped
  <2>2. CASE q = r BY <2>1, <2>2, <1>1, <1>3, <1>4 DEF FilesInv, LifeInv
  <2>3. CASE q # r BY <2>1, <2>3, <1>1, <1>4 DEF FilesInv, LifeInv
  <2> QED BY <2>2, <2>3
<1>11. DescriptorInv' BY <1>5, <1>6 DEF FilesInv, DescriptorInv, SavingSteps
<1>12. EntryInv' /\ ContentInv' BY <1>5 DEF FilesInv, EntryInv, ContentInv
<1>13. AloneInv' BY <1>5, <1>7 DEF FilesInv, AloneInv
<1>14. WrittenInv' BY <1>5, <1>6 DEF FilesInv, WrittenInv, SavingSteps
<1>15. SavedInv' BY <1>5, <1>6 DEF FilesInv, SavedInv, SavingSteps
<1> QED BY <1>8, <1>9, <1>10, <1>11, <1>12, <1>13, <1>14, <1>15 DEF FilesInv

LEMMA SaveBeginsRight ==
  ASSUME FilesInv, NEW r \in Requests, BeginsSave(r)
  PROVE  FilesInv'
<1>1. PICK d \in Lists : \E l \in ListsFor(d), n \in Goals(op[r]), h \in Holds :
       /\ pc' = [pc EXCEPT ![r] = "open"]
       /\ target' = [target EXCEPT ![r] = SavesTo(d)]
       /\ list' = [list EXCEPT ![r] = l]
       /\ next' = [next EXCEPT ![r] = n]
       /\ held' = [held EXCEPT ![r] = h] /\ Fits(op[r], "open", h)
       /\ clash \subseteq clash' /\ clash' \subseteq Lists \cup Marks
       /\ (\E q \in Requests \ {r} : Saving(q, d)) => d \in clash'
  BY DEF BeginsSave
<1>2. PICK l \in ListsFor(d), n \in Goals(op[r]), h \in Holds :
       /\ pc' = [pc EXCEPT ![r] = "open"]
       /\ target' = [target EXCEPT ![r] = SavesTo(d)]
       /\ list' = [list EXCEPT ![r] = l]
       /\ next' = [next EXCEPT ![r] = n]
       /\ held' = [held EXCEPT ![r] = h] /\ Fits(op[r], "open", h)
       /\ clash \subseteq clash' /\ clash' \subseteq Lists \cup Marks
       /\ (\E q \in Requests \ {r} : Saving(q, d)) => d \in clash'
  BY <1>1
<1>3. /\ UNCHANGED <<op, arg, fd, answer, entry, data, expected, torn, faultVars>>
      /\ pc[r] \notin SavingSteps /\ op[r] \in Savers
  BY DEF BeginsSave
<1>4. SavesTo(d) \in Names /\ ListOf(SavesTo(d)) = d BY NamesOfLists
<1>5. FilesTyped BY DEF FilesInv
<1>6. /\ \A q \in Requests : q # r => pc'[q] = pc[q] /\ target'[q] = target[q] /\ list'[q] = list[q]
                                         /\ next'[q] = next[q] /\ held'[q] = held[q]
      /\ pc'[r] = "open" /\ target'[r] = SavesTo(d) /\ list'[r] = l /\ next'[r] = n /\ held'[r] = h
  BY <1>2, <1>5 DEF FilesTyped
<1>7. RequestsTyped' BY <1>3 DEF FilesInv, RequestsTyped
<1>9. FilesTyped'
  <2>1. n \in Steps \cup {"start", "done"} BY StepsAreApart
  <2> QED BY <1>2, <1>3, <1>4, <1>5, ListsHaveElements, <2>1 DEF FilesTyped, SavingSteps, faultVars
<1>10. LifeInv'
  <2> SUFFICES ASSUME NEW q \in Requests
               PROVE  /\ pc'[q] \in {"start", "done"} \cup SavingSteps \cup StepsOf(op[q])
                      /\ pc'[q] \in SavingSteps => op[q] \in Savers
                      /\ Fits(op[q], pc'[q], held'[q])
                      /\ next'[q] \in Goals(op[q])
    BY <1>3 DEF LifeInv
  <2>1. CASE q = r BY <2>1, <1>2, <1>3, <1>6 DEF SavingSteps
  <2>2. CASE q # r BY <2>2, <1>6 DEF FilesInv, LifeInv
  <2> QED BY <2>1, <2>2
<1>11. fd[r] = NoFile BY <1>3 DEF FilesInv, DescriptorInv, SavingSteps
<1>12. DescriptorInv'
  <2>1. \A q \in Requests : (pc'[q] = "write" <=> fd'[q] # NoFile) /\ (pc'[q] = "rename" => target'[q] \notin Lists)
    BY <1>3, <1>6, <1>11 DEF FilesInv, DescriptorInv
  <2>2. \A q \in Requests : fd[q] # NoFile => q # r /\ target'[q] = target[q] BY <1>6, <1>11
  <2>3. SavesTo(d) \notin DOMAIN Temp BY NamesOfLists
  <2>4. \A q \in Requests : pc'[q] \in SavingSteps => target'[q] \notin DOMAIN Temp
    BY <2>3, <1>6 DEF FilesInv, DescriptorInv
  <2> QED BY <1>3, <2>1, <2>2, <2>4 DEF FilesInv, DescriptorInv
<1>13. EntryInv' BY <1>3 DEF FilesInv, EntryInv
<1>14. ContentInv'
  <2>1. \A q \in Requests : list'[q] \in ListsFor(ListOf(target'[q])) BY <1>4, <1>6 DEF FilesInv, ContentInv
  <2> QED BY <1>3, <2>1 DEF FilesInv, ContentInv
<1>15. AloneInv'
  <2> SUFFICES ASSUME NEW c \in Lists, c \notin clash', NEW p \in Requests, NEW q \in Requests,
                      Saving(p, c)', Saving(q, c)'
               PROVE  p = q
    BY DEF AloneInv
  <2>1. \A x \in Requests : x # r /\ Saving(x, c)' => Saving(x, c) BY <1>6 DEF Saving
  <2>2. Saving(r, c)' => c = d BY <1>4, <1>6 DEF Saving
  <2> QED BY <2>1, <2>2, <1>2 DEF FilesInv, AloneInv
<1>16. WrittenInv' BY <1>2, <1>3, <1>6 DEF FilesInv, WrittenInv
<1>17. SavedInv'
  <2>1. \A q \in Requests, c \in Lists : pc[q] = "write" /\ target[q] = c => pc'[q] = "write" /\ target'[q] = c
    BY <1>3, <1>6 DEF SavingSteps
  <2> QED BY <1>2, <1>3, <2>1 DEF FilesInv, SavedInv
<1> QED BY <1>7, <1>9, <1>10, <1>12, <1>13, <1>14, <1>15, <1>16, <1>17 DEF FilesInv

LEMMA RemovalKeeps ==
  ASSUME FilesInv, NEW r \in Requests, Removes(r)
  PROVE  FilesInv'
<1>1. PICK d \in KeyFiles, s \in {"done"} \cup (StepsOf(op[r]) \ {"tokenAdd"}), h \in Holds :
        Fits(op[r], s, h) /\ Unlink(r, d, s, h)
  BY DEF Removes
<1>2. /\ UNCHANGED <<op, arg, target, list, next, fd, data, expected, torn, up, faults, crashes>>
      /\ pc[r] \notin SavingSteps
      /\ entry' = [entry EXCEPT ![d] = NoFile]
      /\ clash' = clash \cup {c \in {d} : \E q \in Requests \ {r} : Saving(q, d)}
      /\ pc' = [pc EXCEPT ![r] = s]
      /\ held' = [held EXCEPT ![r] = h]
      /\ answer' = answer \/ answer' = [answer EXCEPT ![r] = "ok"]
  BY <1>1 DEF Unlink, Removes, Overlapping, faultVars
<1>3. d \in Lists /\ d \in Names /\ ListOf(d) = d /\ d \notin DOMAIN Temp
  BY NamesOfLists, FilesAssumption
<1>4. FilesTyped BY DEF FilesInv
<1>5. s \in Steps \cup {"start", "done"} /\ s \notin SavingSteps /\ s # "tokenAdd" BY StepsAreApart
<1>6. /\ \A q \in Requests : q # r => pc'[q] = pc[q] /\ held'[q] = held[q]
      /\ pc'[r] = s
      /\ \A n \in Names : entry'[n] = IF n = d THEN NoFile ELSE entry[n]
  BY <1>2, <1>3, <1>4 DEF FilesTyped
<1>7. \A q \in Requests, x \in SavingSteps : pc'[q] = x <=> pc[q] = x BY <1>2, <1>5, <1>6
<1>8. \A c : \A q \in Requests : Saving(q, c)' <=> Saving(q, c) BY <1>2, <1>7 DEF Saving, SavingSteps
<1>9. RequestsTyped' BY <1>2 DEF FilesInv, RequestsTyped
<1>10. FilesTyped' BY <1>2, <1>3, <1>4, <1>5 DEF FilesTyped, Answers
<1>11. LifeInv'
  <2> SUFFICES ASSUME NEW q \in Requests
               PROVE  /\ pc'[q] \in {"start", "done"} \cup SavingSteps \cup StepsOf(op[q])
                      /\ pc'[q] \in SavingSteps => op[q] \in Savers
                      /\ Fits(op[q], pc'[q], held'[q])
                      /\ next[q] \in Goals(op[q])
    BY <1>2 DEF LifeInv
  <2>1. CASE q = r
    <3>1. held'[r] = h BY <1>2, <1>4 DEF FilesTyped
    <3> QED BY <2>1, <3>1, <1>1, <1>5, <1>6 DEF FilesInv, LifeInv
  <2>2. CASE q # r BY <2>2, <1>6 DEF FilesInv, LifeInv
  <2> QED BY <2>1, <2>2
<1>12. DescriptorInv' BY <1>2, <1>6, <1>7 DEF FilesInv, DescriptorInv, SavingSteps, NoFile
<1>13. EntryInv' BY <1>6 DEF FilesInv, EntryInv
<1>14. ContentInv' BY <1>2, <1>6 DEF FilesInv, ContentInv
<1>15. AloneInv' BY <1>2, <1>8 DEF FilesInv, AloneInv
<1>16. WrittenInv'
  <2> SUFFICES ASSUME NEW q \in Requests, ListOf(target[q]) \notin clash'
               PROVE  /\ pc'[q] = "write" => entry'[target[q]] = fd[q] /\ data[fd[q]].state = "empty"
                      /\ pc'[q] = "rename" => entry'[target[q]] # NoFile /\ data[entry'[target[q]]] = Whole(list[q])
    BY <1>2 DEF WrittenInv, Whole
  <2>1. target[q] \in Names BY <1>4 DEF FilesTyped
  <2>2. CASE target[q] = d
    <3>1. ~(q # r /\ Saving(q, d)) BY <1>2, <1>3, <2>2
    <3>2. pc'[q] # "write" /\ pc'[q] # "rename"
      BY <3>1, <1>2, <1>3, <1>5, <1>6, <2>2 DEF Saving, SavingSteps
    <3> QED BY <3>2
  <2>3. CASE target[q] # d BY <2>1, <2>3, <1>2, <1>6, <1>7 DEF FilesInv, WrittenInv, SavingSteps
  <2> QED BY <2>2, <2>3
<1>17. SavedInv'
  <2> SUFFICES ASSUME NEW c \in Lists, c \notin clash'
               PROVE  \/ entry'[c] = NoFile
                      \/ data[entry'[c]] = Whole(expected[c])
                      \/ c \notin DOMAIN Temp /\ (c \in torn \/ \E q \in Requests : pc'[q] = "write" /\ target[q] = c)
    BY <1>2 DEF SavedInv, Whole
  <2>1. c \in Names BY NamesOfLists
  <2> QED BY <2>1, <1>2, <1>6, <1>7 DEF FilesInv, SavedInv, SavingSteps
<1> QED BY <1>9, <1>10, <1>11, <1>12, <1>13, <1>14, <1>15, <1>16, <1>17 DEF FilesInv

\* While a request saves, it only changes files and descriptors of the list that it saves.
LEMMA OpenKeeps ==
  ASSUME FilesInv, NEW r \in Requests, Open(r)
  PROVE  FilesInv'
<1> DEFINE t == target[r]
           new == IF entry[target[r]] = NoFile THEN Fresh ELSE entry[target[r]]
<1>1. /\ UNCHANGED <<op, arg, held, target, list, next, answer, expected, clash, torn, up, faults, crashes>>
      /\ pc[r] = "open"
      /\ entry' = [entry EXCEPT ![t] = new]
      /\ data' = [data EXCEPT ![new] = Empty]
      /\ fd' = [fd EXCEPT ![r] = new]
      /\ pc' = [pc EXCEPT ![r] = "write"]
  BY DEF Open, At, faultVars
<1>2. FilesTyped BY DEF FilesInv
<1>3. t \in Names BY <1>2 DEF FilesTyped
<1>4. fd[r] = NoFile BY <1>1 DEF FilesInv, DescriptorInv
<1>5. new \in Inodes /\ new # NoFile
  <2>1. CASE entry[t] = NoFile BY <2>1, <1>2, <1>3, InodeIsLeft DEF FilesTyped, Inodes, NoFile
  <2>2. CASE entry[t] # NoFile BY <2>2, <1>2, <1>3 DEF FilesTyped
  <2> QED BY <2>1, <2>2
\* Nothing else refers to the inode, but what saves the same list.
<1>6. /\ \A n \in Names : n # t => entry[n] # new
      /\ \A q \in Requests : fd[q] = new => ListOf(target[q]) = ListOf(t)
  <2>1. CASE entry[t] = NoFile BY <2>1, <1>2, <1>3, InodeIsLeft DEF FilesTyped, Unused
  <2>2. CASE entry[t] # NoFile BY <2>2, <1>3, <1>5 DEF FilesInv, EntryInv, DescriptorInv
  <2> QED BY <2>1, <2>2
<1> HIDE DEF new
<1>7. /\ \A q \in Requests : q # r => pc'[q] = pc[q] /\ fd'[q] = fd[q]
      /\ pc'[r] = "write" /\ fd'[r] = new
      /\ \A n \in Names : entry'[n] = IF n = t THEN new ELSE entry[n]
      /\ \A i \in Inodes : data'[i] = IF i = new THEN Empty ELSE data[i]
  BY <1>1, <1>2, <1>3, <1>5 DEF FilesTyped
<1>8. \A c : \A q \in Requests : Saving(q, c)' <=> Saving(q, c) BY <1>1, <1>7 DEF Saving
<1>9. RequestsTyped' BY <1>1 DEF FilesInv, RequestsTyped
<1>10. FilesTyped'
  <2>1. Empty \in [state : {"whole", "empty", "part"}, list : SUBSET Elements] BY DEF Empty
  <2> QED BY <2>1, <1>1, <1>2, <1>3, <1>5 DEF FilesTyped, SavingSteps
<1>11. LifeInv'
  <2>1. Fits(op[r], "write", held[r]) BY <1>1, FitsStay DEF FilesInv, LifeInv
  <2> QED BY <2>1, <1>1, <1>7 DEF FilesInv, LifeInv, SavingSteps
<1>12. DescriptorInv'
  <2>1. \A q \in Requests : (pc'[q] = "write" <=> fd'[q] # NoFile) /\ (pc'[q] = "rename" => target[q] \notin Lists)
    BY <1>5, <1>7 DEF FilesInv, DescriptorInv
  <2>2. ASSUME NEW q \in Requests, NEW n \in Names, fd'[q] # NoFile, entry'[n] = fd'[q]
        PROVE  ListOf(n) = ListOf(target[q])
    <3>1. CASE q = r BY <3>1, <2>2, <1>6, <1>7
    <3>2. CASE q # r /\ n = t BY <3>2, <2>2, <1>6, <1>7
    <3>3. CASE q # r /\ n # t BY <3>3, <2>2, <1>7 DEF FilesInv, DescriptorInv
    <3> QED BY <3>1, <3>2, <3>3
  <2>3. ASSUME NEW p \in Requests, NEW q \in Requests, fd'[p] # NoFile, fd'[p] = fd'[q]
        PROVE  ListOf(target[p]) = ListOf(target[q])
    <3>1. CASE p = r \/ q = r BY <3>1, <2>3, <1>6, <1>7
    <3>2. CASE p # r /\ q # r BY <3>2, <2>3, <1>7 DEF FilesInv, DescriptorInv
    <3> QED BY <3>1, <3>2
  <2>4. \A q \in Requests : pc'[q] \in SavingSteps => target[q] \notin DOMAIN Temp
    BY <1>1, <1>7 DEF FilesInv, DescriptorInv, SavingSteps
  <2> QED BY <2>1, <2>2, <2>3, <2>4, <1>1 DEF DescriptorInv
<1>13. EntryInv' BY <1>5, <1>6, <1>7 DEF FilesInv, EntryInv
<1>14. ContentInv'
  <2>1. \A d : {} \in ListsFor(d)
    BY DEF ListsFor, TokenLists, PoolLists, UniqueTokens, UniquePools
  <2>2. ASSUME NEW n \in Names, entry'[n] # NoFile
        PROVE  data'[entry'[n]].list \in ListsFor(ListOf(n))
    <3>1. entry'[n] \in Inodes BY <2>2, <1>10 DEF FilesTyped
    <3>2. CASE n = t
      <4>1. data'[entry'[n]] = Empty BY <3>2, <1>3, <1>5, <1>7
      <4>2. Empty.list = {} BY DEF Empty
      <4> QED BY <4>1, <4>2, <2>1
    <3>3. CASE n # t BY <3>1, <3>3, <2>2, <1>6, <1>7 DEF FilesInv, ContentInv
    <3> QED BY <3>2, <3>3
  <2> QED BY <2>2, <1>1 DEF FilesInv, ContentInv
<1>15. AloneInv' BY <1>1, <1>8 DEF FilesInv, AloneInv
<1>16. ListOf(t) \notin clash => \A q \in Requests : Saving(q, ListOf(t)) => q = r
  <2>1. Saving(r, ListOf(t)) BY <1>1 DEF Saving
  <2>2. ListOf(t) \in Lists BY <1>3, NamesOfLists
  <2> QED BY <2>1, <2>2 DEF FilesInv, AloneInv
<1>17. WrittenInv'
  <2> SUFFICES ASSUME NEW q \in Requests, ListOf(target[q]) \notin clash
               PROVE  /\ pc'[q] = "write" => entry'[target[q]] = fd'[q] /\ data'[fd'[q]].state = "empty"
                      /\ pc'[q] = "rename" => entry'[target[q]] # NoFile /\ data'[entry'[target[q]]] = Whole(list[q])
    BY <1>1 DEF WrittenInv, Whole
  <2>1. target[q] \in Names BY <1>2 DEF FilesTyped
  <2>2. CASE q = r BY <2>1, <2>2, <1>5, <1>7 DEF Empty
  <2>3. CASE q # r /\ pc[q] \in {"write", "rename"}
    <3>1. Saving(q, ListOf(target[q])) BY <2>3 DEF Saving
    <3>2. ListOf(target[q]) # ListOf(t) BY <3>1, <2>3, <1>16
    <3>3. target[q] # t /\ entry[target[q]] # new /\ fd[q] # new BY <3>2, <2>1, <1>6
    <3>4. pc[q] = "write" => fd[q] \in Inodes BY <1>2 DEF FilesInv, FilesTyped, DescriptorInv
    <3>5. pc[q] = "rename" => entry[target[q]] \in Inodes BY <1>2, <2>1 DEF FilesInv, FilesTyped, WrittenInv
    <3> QED BY <2>1, <2>3, <3>3, <3>4, <3>5, <1>7 DEF FilesInv, WrittenInv
  <2> QED BY <2>2, <2>3, <1>7
<1>18. SavedInv'
  <2> SUFFICES ASSUME NEW c \in Lists, c \notin clash
               PROVE  \/ entry'[c] = NoFile
                      \/ data'[entry'[c]] = Whole(expected[c])
                      \/ c \notin DOMAIN Temp /\ (c \in torn \/ \E q \in Requests : pc'[q] = "write" /\ target[q] = c)
    BY <1>1 DEF SavedInv, Whole
  <2>1. c \in Names BY NamesOfLists
  <2>2. CASE c = t
    <3>1. c \notin DOMAIN Temp BY <2>2, <1>1 DEF FilesInv, DescriptorInv, SavingSteps
    <3> QED BY <2>2, <3>1, <1>7
  <2>3. CASE c # t
    <3>1. entry[c] # new /\ entry'[c] = entry[c] BY <2>1, <2>3, <1>6, <1>7
    <3>2. entry[c] # NoFile => data'[entry'[c]] = data[entry[c]] BY <2>1, <3>1, <1>2, <1>7 DEF FilesTyped
    <3> QED BY <3>1, <3>2, <1>1, <1>7 DEF FilesInv, SavedInv
  <2> QED BY <2>2, <2>3
<1> QED BY <1>9, <1>10, <1>11, <1>12, <1>13, <1>14, <1>15, <1>17, <1>18 DEF FilesInv

\* Whoever else saves a list of which no changes overlapped saves another one.
LEMMA SaversAreApart ==
  ASSUME FilesInv, NEW r \in Requests, NEW q \in Requests, q # r, pc[r] \in SavingSteps, pc[q] \in SavingSteps,
         ListOf(target[q]) \notin clash
  PROVE  ListOf(target[q]) # ListOf(target[r])
<1>1. target[q] \in Names BY DEF FilesInv, FilesTyped
<1>2. ListOf(target[q]) \in Lists BY <1>1, NamesOfLists
<1>3. Saving(q, ListOf(target[q])) BY DEF Saving, SavingSteps
<1>4. ListOf(target[q]) = ListOf(target[r]) => Saving(r, ListOf(target[q])) BY DEF Saving, SavingSteps
<1> QED BY <1>2, <1>3, <1>4 DEF FilesInv, AloneInv

LEMMA WriteKeeps ==
  ASSUME FilesInv, NEW r \in Requests, Write(r)
  PROVE  FilesInv'
<1> DEFINE t == target[r]
           i == fd[r]
           s == IF target[r] \in Lists THEN next[r] ELSE "rename"
<1>1. /\ UNCHANGED <<op, arg, held, target, list, next, entry, clash, torn, up, faults, crashes>>
      /\ pc[r] = "write"
      /\ fd' = [fd EXCEPT ![r] = NoFile]
      /\ pc' = [pc EXCEPT ![r] = s]
      /\ answer' = answer \/ answer' = [answer EXCEPT ![r] = "ok"]
      /\ expected' = IF t \in Lists /\ entry[t] = i THEN [expected EXCEPT ![t] = list[r]] ELSE expected
  BY DEF Write, At, faultVars, Changed
<1>2. PICK c \in Overwritten(data[i], list[r]) : data' = [data EXCEPT ![i] = c] BY DEF Write
<1>3. c \in {Whole(list[r]), Part} /\ (data[i].state = "empty" => c = Whole(list[r])) BY <1>2 DEF Overwritten
<1>4. FilesTyped BY DEF FilesInv
<1>5. t \in Names /\ i \in Inodes /\ i # NoFile BY <1>1, <1>4 DEF FilesTyped, FilesInv, DescriptorInv
<1>6. s \in {"start", "done"} \cup (Steps \ {"tokenAdd"}) \cup {"rename"} /\ s # "open" /\ s # "write"
  <2>1. next[r] \in Goals(op[r]) BY DEF FilesInv, LifeInv
  <2> QED BY <2>1, StepsAreApart DEF SavingSteps
<1>S. s \in {next[r], "rename"} OBVIOUS
<1>7. /\ \A q \in Requests : q # r => pc'[q] = pc[q] /\ fd'[q] = fd[q]
      /\ pc'[r] = s /\ fd'[r] = NoFile
      /\ \A j \in Inodes : data'[j] = IF j = i THEN c ELSE data[j]
  BY <1>1, <1>2, <1>4, <1>5 DEF FilesTyped
<1>8. \A d : \A q \in Requests : Saving(q, d)' => Saving(q, d) BY <1>1, <1>6, <1>7 DEF Saving
<1>9. RequestsTyped' BY <1>1 DEF FilesInv, RequestsTyped
<1>10. FilesTyped'
  <2>1. c \in [state : {"whole", "empty", "part"}, list : SUBSET Elements] BY <1>3, <1>4 DEF Whole, Part, FilesTyped
  <2>2. data' \in [Inodes -> [state : {"whole", "empty", "part"}, list : SUBSET Elements]]
    BY <2>1, <1>2, <1>4 DEF FilesTyped
  <2>3. expected' \in [Lists -> SUBSET Elements] BY <1>1, <1>4 DEF FilesTyped
  <2>4. pc' \in [Requests -> Steps \cup SavingSteps \cup {"start", "done"}]
    BY <1>1, <1>4, <1>6 DEF FilesTyped, SavingSteps
  <2> QED BY <2>2, <2>3, <2>4, <1>1, <1>4 DEF FilesTyped, Answers
<1>11. LifeInv'
  <2> SUFFICES ASSUME NEW q \in Requests
               PROVE  /\ pc'[q] \in {"start", "done"} \cup SavingSteps \cup StepsOf(op[q])
                      /\ pc'[q] \in SavingSteps => op[q] \in Savers
                      /\ Fits(op[q], pc'[q], held[q])
                      /\ next[q] \in Goals(op[q])
    BY <1>1 DEF LifeInv
  <2>1. CASE q = r
    <3>1. next[r] \in Goals(op[r]) /\ op[r] \in Savers BY <1>1 DEF FilesInv, LifeInv, SavingSteps
    <3>2. s # "tokenAdd" BY <1>6
    <3>3. Fits(op[r], s, held[r]) BY <3>2, <1>1, FitsStay DEF FilesInv, LifeInv
    <3> HIDE DEF s
    <3> QED BY <2>1, <3>1, <3>3, <1>S, <1>7 DEF Goals, SavingSteps
  <2>2. CASE q # r BY <2>2, <1>7 DEF FilesInv, LifeInv
  <2> QED BY <2>1, <2>2
<1>12. DescriptorInv'
  <2>1. \A q \in Requests : pc'[q] = "write" <=> fd'[q] # NoFile BY <1>6, <1>7 DEF FilesInv, DescriptorInv
  <2>2. \A q \in Requests : pc'[q] = "rename" => target[q] \notin Lists
    <3>1. next[r] \in Goals(op[r]) BY DEF FilesInv, LifeInv
    <3>2. next[r] # "rename" BY <3>1, StepsAreApart DEF SavingSteps
    <3>3. target[r] \in Lists => s = next[r] OBVIOUS
    <3>4. ASSUME NEW q \in Requests, pc'[q] = "rename"
          PROVE  target[q] \notin Lists
      <4>1. CASE q = r BY <4>1, <3>2, <3>3, <3>4, <1>7
      <4>2. CASE q # r BY <4>2, <3>4, <1>7 DEF FilesInv, DescriptorInv
      <4> QED BY <4>1, <4>2
    <3> QED BY <3>4
  <2>3. \A q \in Requests : pc'[q] \in SavingSteps => target[q] \notin DOMAIN Temp
    BY <1>1, <1>7 DEF FilesInv, DescriptorInv, SavingSteps
  <2>4. \A q \in Requests : fd'[q] # NoFile => fd'[q] = fd[q] BY <1>7
  <2> QED BY <2>1, <2>2, <2>3, <2>4, <1>1 DEF FilesInv, DescriptorInv
<1>13. EntryInv' BY <1>1 DEF FilesInv, EntryInv
<1>14. ContentInv'
  <2>1. \A d : {} \in ListsFor(d) BY DEF ListsFor, TokenLists, PoolLists, UniqueTokens, UniquePools
  <2>2. list[r] \in ListsFor(ListOf(t)) BY DEF FilesInv, ContentInv
  <2>3. c.list \in ListsFor(ListOf(t)) BY <2>1, <2>2, <1>3 DEF Whole, Part
  <2>4. ASSUME NEW n \in Names, entry[n] # NoFile
        PROVE  data'[entry[n]].list \in ListsFor(ListOf(n))
    <3>1. entry[n] \in Inodes BY <2>4, <1>4 DEF FilesTyped
    <3>2. CASE entry[n] = i
      <4>1. ListOf(n) = ListOf(t) BY <3>2, <1>5 DEF FilesInv, DescriptorInv
      <4> QED BY <4>1, <3>2, <2>3, <1>5, <1>7
    <3>3. CASE entry[n] # i BY <3>1, <3>3, <2>4, <1>7 DEF FilesInv, ContentInv
    <3> QED BY <3>2, <3>3
  <2>5. ASSUME NEW d \in Lists
        PROVE  expected'[d] \in ListsFor(d)
    <3>1. t \in Lists => ListOf(t) = t BY NamesOfLists
    <3>2. expected'[d] = expected[d] \/ (d = t /\ expected'[d] = list[r]) BY <1>1, <1>4 DEF FilesTyped
    <3> QED BY <2>2, <3>1, <3>2 DEF FilesInv, ContentInv
  <2> QED BY <2>4, <2>5, <1>1 DEF FilesInv, ContentInv
<1>15. AloneInv' BY <1>1, <1>8 DEF FilesInv, AloneInv
<1>16. ListOf(t) \notin clash => entry[t] = i /\ c = Whole(list[r])
  BY <1>1, <1>3 DEF FilesInv, WrittenInv
<1>17. WrittenInv'
  <2> SUFFICES ASSUME NEW q \in Requests, ListOf(target[q]) \notin clash
               PROVE  /\ pc'[q] = "write" => entry[target[q]] = fd'[q] /\ data'[fd'[q]].state = "empty"
                      /\ pc'[q] = "rename" => entry[target[q]] # NoFile /\ data'[entry[target[q]]] = Whole(list[q])
    BY <1>1 DEF WrittenInv, Whole
  <2>1. target[q] \in Names BY <1>4 DEF FilesTyped
  <2>2. CASE q = r BY <2>2, <1>5, <1>6, <1>7, <1>16
  <2>3. CASE q # r /\ pc[q] \in {"write", "rename"}
    <3>1. ListOf(target[q]) # ListOf(t) BY <2>3, <1>1, SaversAreApart DEF SavingSteps
    <3>2. entry[target[q]] # i BY <3>1, <2>1, <1>5 DEF FilesInv, DescriptorInv
    <3>3. pc[q] = "write" => fd[q] \in Inodes /\ fd[q] = entry[target[q]] BY <1>4 DEF FilesInv, FilesTyped, DescriptorInv, WrittenInv
    <3>4. pc[q] = "rename" => entry[target[q]] \in Inodes BY <1>4, <2>1 DEF FilesInv, FilesTyped, WrittenInv
    <3> QED BY <2>3, <3>2, <3>3, <3>4, <1>7 DEF FilesInv, WrittenInv
  <2> QED BY <2>2, <2>3, <1>7
<1>18. SavedInv'
  <2> SUFFICES ASSUME NEW d \in Lists, d \notin clash, entry[d] # NoFile
               PROVE  \/ data'[entry[d]] = Whole(expected'[d])
                      \/ d \notin DOMAIN Temp /\ (d \in torn \/ \E q \in Requests : pc'[q] = "write" /\ target[q] = d)
    BY <1>1 DEF SavedInv, Whole
  <2>1. d \in Names /\ ListOf(d) = d /\ entry[d] \in Inodes BY NamesOfLists, <1>4 DEF FilesTyped
  <2>2. CASE entry[d] = i
    <3>1. ListOf(t) = d BY <2>1, <2>2, <1>5 DEF FilesInv, DescriptorInv
    <3>2. d = t BY <3>1, <2>1, <2>2, <1>5, <1>16 DEF FilesInv, EntryInv
    <3>3. expected'[d] = list[r] BY <3>2, <2>2, <1>1, <1>4 DEF FilesTyped
    <3> QED BY <3>1, <3>3, <2>2, <1>5, <1>7, <1>16
  <2>3. CASE entry[d] # i
    <3>1. expected'[d] = expected[d] BY <2>3, <1>1, <1>4 DEF FilesTyped
    <3>2. data'[entry[d]] = data[entry[d]] BY <2>1, <2>3, <1>7
    <3>3. target[r] # d BY <2>1, <2>3, <1>16
    <3> QED BY <3>1, <3>2, <3>3, <1>7 DEF FilesInv, SavedInv
  <2> QED BY <2>2, <2>3
<1> QED BY <1>9, <1>10, <1>11, <1>12, <1>13, <1>14, <1>15, <1>17, <1>18 DEF FilesInv

\* After a save, or one that threw, a request goes on where it was to go on.
LEMMA SaveEndsRight ==
  ASSUME FilesInv, NEW r \in Requests, pc[r] \in SavingSteps, NEW s \in {next[r], "done"},
         pc' = [pc EXCEPT ![r] = s], UNCHANGED <<op, held, next>>
  PROVE  /\ LifeInv'
         /\ s \in Steps \cup {"start", "done"} /\ s \notin SavingSteps
         /\ pc'[r] = s /\ \A q \in Requests : q # r => pc'[q] = pc[q]
         /\ \A d, q : q \in Requests /\ Saving(q, d) /\ q # r => pc[q] \in SavingSteps
<1>1. pc \in [Requests -> Steps \cup SavingSteps \cup {"start", "done"}] BY DEF FilesInv, FilesTyped
<1>2. s \in Goals(op[r]) BY DEF FilesInv, LifeInv, Goals
<1>3. s \in Steps \cup {"start", "done"} /\ s \notin SavingSteps /\ s # "tokenAdd" BY <1>2, StepsAreApart
<1>4. pc'[r] = s /\ \A q \in Requests : q # r => pc'[q] = pc[q] BY <1>1
<1>5. LifeInv'
  <2> SUFFICES ASSUME NEW q \in Requests
               PROVE  /\ pc'[q] \in {"start", "done"} \cup SavingSteps \cup StepsOf(op[q])
                      /\ pc'[q] \in SavingSteps => op[q] \in Savers
                      /\ Fits(op[q], pc'[q], held[q])
                      /\ next[q] \in Goals(op[q])
    BY DEF LifeInv
  <2>1. CASE q = r
    <3>1. Fits(op[r], s, held[r])
      BY <1>3, StepsAreApart, FitsStay DEF FilesInv, LifeInv, SavingSteps
    <3> QED BY <2>1, <3>1, <1>2, <1>3, <1>4 DEF FilesInv, LifeInv, Goals
  <2>2. CASE q # r BY <2>2, <1>4 DEF FilesInv, LifeInv
  <2> QED BY <2>1, <2>2
<1> QED BY <1>3, <1>4, <1>5 DEF Saving, SavingSteps

\* A save that threw, with what it may leave behind: nothing of the temporary file, or a file
\* that is half written.
LEMMA ThrowingKeeps ==
  ASSUME FilesInv, NEW r \in Requests, pc[r] \in {"write", "rename"}, NEW s \in {next[r], "done"}, NEW a \in Answers,
         pc' = [pc EXCEPT ![r] = s], answer' = answer \/ answer' = [answer EXCEPT ![r] = a],
         fd' = [fd EXCEPT ![r] = NoFile],
         \/ target[r] \in Lists /\ torn' = torn \cup {target[r]} /\ entry' = entry
         \/ target[r] \notin Lists /\ entry' = [entry EXCEPT ![target[r]] = NoFile] /\ torn' = torn,
         faults' \in Nat, faults' + crashes <= MaxFaults,
         UNCHANGED <<op, arg, held, target, list, next, data, expected, clash, up, crashes>>
  PROVE  FilesInv'
<1> DEFINE t == target[r]
<1>1. FilesTyped BY DEF FilesInv
<1>2. t \in Names BY <1>1 DEF FilesTyped
<1>3. /\ LifeInv'
      /\ s \in Steps \cup {"start", "done"} /\ s \notin SavingSteps
      /\ pc'[r] = s /\ \A q \in Requests : q # r => pc'[q] = pc[q]
  BY SaveEndsRight DEF SavingSteps
<1>4. fd'[r] = NoFile /\ \A q \in Requests : q # r => fd'[q] = fd[q] BY <1>1 DEF FilesTyped
<1>5. \A n \in Names : entry'[n] = entry[n] \/ (entry'[n] = NoFile /\ n = t /\ t \notin Lists) BY <1>1 DEF FilesTyped
<1>6. \A d : \A q \in Requests : Saving(q, d)' => Saving(q, d) /\ q # r BY <1>3 DEF Saving, SavingSteps
<1>7. RequestsTyped' BY DEF FilesInv, RequestsTyped
<1>8. FilesTyped'
  <2>1. torn' \subseteq Lists BY <1>1 DEF FilesTyped
  <2>2. entry' \in [Names -> Inodes \cup {NoFile}] BY <1>1 DEF FilesTyped
  <2>3. answer' \in [Requests -> Answers] BY <1>1 DEF FilesTyped
  <2>4. pc' \in [Requests -> Steps \cup SavingSteps \cup {"start", "done"}] BY <1>1, <1>3 DEF FilesTyped
  <2> QED BY <2>1, <2>2, <2>3, <2>4, <1>1 DEF FilesTyped
<1>9. DescriptorInv'
  <2>1. \A q \in Requests : pc'[q] = "write" <=> fd'[q] # NoFile
    BY <1>3, <1>4 DEF FilesInv, DescriptorInv, SavingSteps
  <2>2. \A q \in Requests : /\ pc'[q] = "rename" => target[q] \notin Lists
                            /\ pc'[q] \in SavingSteps => target[q] \notin DOMAIN Temp
    BY <1>3 DEF FilesInv, DescriptorInv, SavingSteps
  <2>3. \A q \in Requests, n \in Names : fd'[q] # NoFile /\ entry'[n] = fd'[q] => fd'[q] = fd[q] /\ entry[n] = fd[q]
    BY <1>4, <1>5
  <2>4. \A q \in Requests : fd'[q] # NoFile => fd'[q] = fd[q] BY <1>4
  <2> QED BY <2>1, <2>2, <2>3, <2>4 DEF FilesInv, DescriptorInv
<1>10. EntryInv' BY <1>5 DEF FilesInv, EntryInv
<1>11. ContentInv' BY <1>5 DEF FilesInv, ContentInv
<1>12. AloneInv' BY <1>6 DEF FilesInv, AloneInv
<1>13. WrittenInv'
  <2> SUFFICES ASSUME NEW q \in Requests, ListOf(target[q]) \notin clash, pc'[q] \in {"write", "rename"}
               PROVE  /\ pc'[q] = "write" => entry'[target[q]] = fd'[q] /\ data[fd'[q]].state = "empty"
                      /\ pc'[q] = "rename" => entry'[target[q]] # NoFile /\ data[entry'[target[q]]] = Whole(list[q])
    BY DEF WrittenInv, Whole
  <2>1. target[q] \in Names BY <1>1 DEF FilesTyped
  <2>2. q # r BY <1>3 DEF SavingSteps
  <2>3. pc'[q] = pc[q] BY <2>2, <1>3
  <2>4. ListOf(target[q]) # ListOf(t) BY <2>2, <2>3, SaversAreApart DEF SavingSteps
  <2>5. entry'[target[q]] = entry[target[q]] BY <2>1, <2>4, <1>5
  <2> QED BY <2>2, <2>3, <2>5, <1>4 DEF FilesInv, WrittenInv
<1>14. SavedInv'
  <2> SUFFICES ASSUME NEW c \in Lists, c \notin clash
               PROVE  \/ entry'[c] = NoFile
                      \/ data[entry'[c]] = Whole(expected[c])
                      \/ c \notin DOMAIN Temp /\ (c \in torn' \/ \E q \in Requests : pc'[q] = "write" /\ target[q] = c)
    BY DEF SavedInv, Whole
  <2>1. c \in Names BY NamesOfLists
  <2>2. entry'[c] = entry[c] BY <2>1, <1>5
  <2>3. CASE c = t
    <3>1. c \notin DOMAIN Temp BY <2>3 DEF FilesInv, DescriptorInv, SavingSteps
    <3> QED BY <2>3, <3>1
  <2>4. CASE c # t
    <3>1. \A q \in Requests : pc[q] = "write" /\ target[q] = c => pc'[q] = "write" BY <2>4, <1>3
    <3> QED BY <2>2, <3>1 DEF FilesInv, SavedInv
  <2> QED BY <2>3, <2>4
<1> QED BY <1>3, <1>7, <1>8, <1>9, <1>10, <1>11, <1>12, <1>13, <1>14 DEF FilesInv

LEMMA WriteFailsKeeps ==
  ASSUME FilesInv, NEW r \in Requests, NEW swallows \in BOOLEAN, NEW status \in Answers, WriteFails(r, swallows, status)
  PROVE  FilesInv'
<1>1. PICK s \in {next[r], "done"} :
        /\ pc' = [pc EXCEPT ![r] = s]
        /\ answer' = answer \/ answer' = [answer EXCEPT ![r] = status]
  BY DEF WriteFails, Throws, Answer
<1>2. faults' \in Nat /\ faults' + crashes <= MaxFaults
  BY FaultsAreBounded DEF WriteFails, FilesInv, FilesTyped
<1> QED BY <1>1, <1>2, ThrowingKeeps DEF WriteFails, At

LEMMA RenameKeeps ==
  ASSUME FilesInv, NEW r \in Requests, NEW swallows \in BOOLEAN, NEW status \in Answers, Rename(r, swallows, status)
  PROVE  FilesInv'
<1> DEFINE t == target[r]
           d == ListOf(target[r])
<1>1. /\ UNCHANGED <<op, arg, held, target, list, next, fd, data, clash, torn, up, faults, crashes>>
      /\ pc[r] = "rename"
  BY DEF Rename, At, faultVars
<1>2. FilesTyped BY DEF FilesInv
<1>3. t \in Names /\ t \notin Lists /\ fd[r] = NoFile BY <1>1, <1>2 DEF FilesTyped, FilesInv, DescriptorInv
<1>4. d \in Lists /\ d \in Names /\ ListOf(d) = d /\ d # t /\ d \in DOMAIN Temp BY <1>3, NamesOfLists
<1>5. CASE entry[t] = NoFile
  <2>1. PICK s \in {next[r], "done"} :
        /\ pc' = [pc EXCEPT ![r] = s]
        /\ answer' = answer \/ answer' = [answer EXCEPT ![r] = status]
    BY <1>5 DEF Rename, Throws, Answer
  <2>2. entry' = entry /\ expected' = expected BY <1>5 DEF Rename
  <2>3. entry' = [entry EXCEPT ![t] = NoFile] BY <2>2, <1>2, <1>3, <1>5 DEF FilesTyped
  <2>4. fd' = [fd EXCEPT ![r] = NoFile] BY <1>1, <1>2, <1>3 DEF FilesTyped
  <2>5. faults' \in Nat /\ faults' + crashes <= MaxFaults BY <1>1, <1>2 DEF FilesTyped
  <2> QED BY <1>1, <1>3, <2>1, <2>2, <2>3, <2>4, <2>5, ThrowingKeeps
<1>6. CASE entry[t] # NoFile
  <2> DEFINE s == next[r]
  <2>1. /\ entry' = [entry EXCEPT ![d] = entry[t], ![t] = NoFile]
        /\ expected' = [expected EXCEPT ![d] = list[r]]
        /\ pc' = [pc EXCEPT ![r] = s]
        /\ answer' = answer \/ answer' = [answer EXCEPT ![r] = "ok"]
    BY <1>6 DEF Rename, Changed
  <2>2. /\ LifeInv'
        /\ s \in Steps \cup {"start", "done"} /\ s \notin SavingSteps
        /\ pc'[r] = s /\ \A q \in Requests : q # r => pc'[q] = pc[q]
    BY <1>1, <2>1, SaveEndsRight DEF SavingSteps
  <2>3. \A n \in Names : entry'[n] = IF n = t THEN NoFile ELSE IF n = d THEN entry[t] ELSE entry[n]
    BY <1>2, <1>3, <1>4, <2>1 DEF FilesTyped
  <2>4. expected'[d] = list[r] /\ \A c \in Lists : c # d => expected'[c] = expected[c]
    BY <1>2, <1>4, <2>1 DEF FilesTyped
  <2>5. \A c : \A q \in Requests : Saving(q, c)' => Saving(q, c) /\ q # r BY <1>1, <2>2 DEF Saving, SavingSteps
  <2>6. RequestsTyped' BY <1>1 DEF FilesInv, RequestsTyped
  <2>7. FilesTyped'
    <3>1. entry' \in [Names -> Inodes \cup {NoFile}] BY <1>2, <1>3, <1>4, <2>1 DEF FilesTyped
    <3>2. expected' \in [Lists -> SUBSET Elements] BY <1>2, <1>4, <2>1 DEF FilesTyped
    <3>3. answer' \in [Requests -> Answers] BY <1>2, <2>1 DEF FilesTyped, Answers
    <3>4. pc' \in [Requests -> Steps \cup SavingSteps \cup {"start", "done"}] BY <1>2, <2>1, <2>2 DEF FilesTyped
    <3> QED BY <3>1, <3>2, <3>3, <3>4, <1>1, <1>2 DEF FilesTyped
  <2>8. DescriptorInv'
    <3>1. \A q \in Requests : /\ pc'[q] = "write" <=> fd[q] # NoFile
                              /\ pc'[q] = "rename" => target[q] \notin Lists
                              /\ pc'[q] \in SavingSteps => target[q] \notin DOMAIN Temp
      BY <1>1, <1>3, <2>2 DEF FilesInv, DescriptorInv, SavingSteps
    <3>2. ASSUME NEW q \in Requests, NEW n \in Names, fd[q] # NoFile, entry'[n] = fd[q]
          PROVE  ListOf(n) = ListOf(target[q])
      <4>1. CASE n = d BY <4>1, <3>2, <1>3, <1>4, <2>3 DEF FilesInv, DescriptorInv
      <4>2. CASE n # d BY <4>2, <3>2, <2>3 DEF FilesInv, DescriptorInv
      <4> QED BY <4>1, <4>2
    <3> QED BY <3>1, <3>2, <1>1 DEF FilesInv, DescriptorInv
  <2>9. EntryInv' BY <1>3, <1>4, <2>3 DEF FilesInv, EntryInv
  <2>10. ContentInv'
    <3>1. ASSUME NEW n \in Names, entry'[n] # NoFile
          PROVE  data[entry'[n]].list \in ListsFor(ListOf(n))
      <4>1. CASE n = d BY <4>1, <3>1, <1>3, <1>4, <1>6, <2>3 DEF FilesInv, ContentInv
      <4>2. CASE n # d BY <4>2, <3>1, <2>3 DEF FilesInv, ContentInv
      <4> QED BY <4>1, <4>2
    <3>2. \A c \in Lists : expected'[c] \in ListsFor(c) BY <2>4 DEF FilesInv, ContentInv
    <3> QED BY <3>1, <3>2, <1>1 DEF FilesInv, ContentInv
  <2>11. AloneInv' BY <1>1, <2>5 DEF FilesInv, AloneInv
  <2>12. WrittenInv'
    <3> SUFFICES ASSUME NEW q \in Requests, ListOf(target[q]) \notin clash, pc'[q] \in {"write", "rename"}
                 PROVE  /\ pc'[q] = "write" => entry'[target[q]] = fd[q] /\ data[fd[q]].state = "empty"
                        /\ pc'[q] = "rename" => entry'[target[q]] # NoFile /\ data[entry'[target[q]]] = Whole(list[q])
      BY <1>1 DEF WrittenInv, Whole
    <3>1. target[q] \in Names BY <1>2 DEF FilesTyped
    <3>2. q # r BY <2>2 DEF SavingSteps
    <3>3. pc'[q] = pc[q] BY <3>2, <2>2
    <3>4. ListOf(target[q]) # ListOf(t) BY <3>2, <3>3, <1>1, SaversAreApart DEF SavingSteps
    <3>5. entry'[target[q]] = entry[target[q]] BY <3>1, <3>4, <1>4, <2>3
    <3> QED BY <3>3, <3>5 DEF FilesInv, WrittenInv
  <2>13. SavedInv'
    <3> SUFFICES ASSUME NEW c \in Lists, c \notin clash
                 PROVE  \/ entry'[c] = NoFile
                        \/ data[entry'[c]] = Whole(expected'[c])
                        \/ c \notin DOMAIN Temp /\ (c \in torn \/ \E q \in Requests : pc'[q] = "write" /\ target[q] = c)
      BY <1>1 DEF SavedInv, Whole
    <3>1. c \in Names BY NamesOfLists
    <3>2. CASE c = d
      <4>1. data[entry[t]] = Whole(list[r]) BY <3>2, <1>1 DEF FilesInv, WrittenInv
      <4> QED BY <4>1, <3>2, <1>4, <2>3, <2>4
    <3>3. CASE c # d
      <4>1. entry'[c] = entry[c] /\ expected'[c] = expected[c] BY <3>1, <3>3, <1>3, <2>3, <2>4
      <4>2. \A q \in Requests : pc[q] = "write" => pc'[q] = "write" BY <1>1, <2>2
      <4> QED BY <4>1, <4>2 DEF FilesInv, SavedInv
    <3> QED BY <3>2, <3>3
  <2> QED BY <2>2, <2>6, <2>7, <2>8, <2>9, <2>10, <2>11, <2>12, <2>13 DEF FilesInv
<1> QED BY <1>5, <1>6

LEMMA LoadEndKeeps ==
  ASSUME FilesInv, NEW r \in Requests, LoadEnds(r)
  PROVE  FilesInv'
<1>1. /\ UNCHANGED <<op, arg, held, target, list, next, fd, entry, data, expected, clash, torn, up, faults, crashes>>
      /\ pc' = [q \in Requests |-> IF q = r \/ pc[q] = "awaiting" THEN "done" ELSE pc[q]]
      /\ pc[r] \notin SavingSteps
  BY DEF LoadEnds, fileVars, faultVars, SavingSteps
<1>2. FilesTyped BY DEF FilesInv
<1>3. \A q \in Requests : pc'[q] # pc[q] => pc'[q] = "done" /\ pc[q] \notin SavingSteps BY <1>1 DEF SavingSteps
<1>4. \A q \in Requests, x \in SavingSteps : pc'[q] = x <=> pc[q] = x BY <1>3 DEF SavingSteps
<1>5. \A d : \A q \in Requests : Saving(q, d)' <=> Saving(q, d) BY <1>1, <1>4 DEF Saving, SavingSteps
<1>6. RequestsTyped' BY <1>1 DEF FilesInv, RequestsTyped
<1>7. FilesTyped' BY <1>1, <1>2 DEF FilesTyped, LoadEnds
<1>8. LifeInv'
  <2> SUFFICES ASSUME NEW q \in Requests
               PROVE  /\ pc'[q] \in {"start", "done"} \cup SavingSteps \cup StepsOf(op[q])
                      /\ pc'[q] \in SavingSteps => op[q] \in Savers
                      /\ Fits(op[q], pc'[q], held[q])
                      /\ next[q] \in Goals(op[q])
    BY <1>1 DEF LifeInv
  <2>1. Fits(op[q], pc'[q], held[q]) BY <1>3, FitsStay DEF FilesInv, LifeInv
  <2> QED BY <2>1, <1>3 DEF FilesInv, LifeInv, SavingSteps
<1>9. DescriptorInv' BY <1>1, <1>4 DEF FilesInv, DescriptorInv, SavingSteps
<1>10. EntryInv' /\ ContentInv' BY <1>1 DEF FilesInv, EntryInv, ContentInv
<1>11. AloneInv' BY <1>1, <1>5 DEF FilesInv, AloneInv
<1>12. WrittenInv' BY <1>1, <1>4 DEF FilesInv, WrittenInv, SavingSteps
<1>13. SavedInv' BY <1>1, <1>4 DEF FilesInv, SavedInv, SavingSteps
<1> QED BY <1>6, <1>7, <1>8, <1>9, <1>10, <1>11, <1>12, <1>13 DEF FilesInv

LEMMA CrashKeeps ==
  ASSUME FilesInv, CrashFiles
  PROVE  FilesInv'
<1>1. /\ UNCHANGED <<op, arg, held, target, list, next, entry, data, expected, clash, faults>>
      /\ up' = FALSE /\ crashes' = crashes + 1 /\ faults + crashes < MaxFaults
      /\ pc' = [r \in Requests |-> IF Waits(r) THEN "start" ELSE "done"]
      /\ fd' = [r \in Requests |-> NoFile]
      /\ torn' = torn \cup {d \in Lists : \E r \in Requests : pc[r] = "write" /\ target[r] = d}
  BY DEF CrashFiles
<1>2. FilesTyped BY DEF FilesInv
<1>3. \A q \in Requests : pc'[q] \in {"start", "done"} /\ pc'[q] \notin SavingSteps /\ fd'[q] = NoFile
  BY <1>1 DEF SavingSteps
<1>4. RequestsTyped' BY <1>1 DEF FilesInv, RequestsTyped
<1>5. FilesTyped'
  <2>1. crashes' \in Nat /\ faults' \in Nat /\ faults' + crashes' <= MaxFaults
    BY <1>1, <1>2, FaultsAreBounded DEF FilesTyped
  <2>2. answer' \in [Requests -> Answers] BY <1>2 DEF CrashFiles, FilesTyped, Answers
  <2>3. pc' \in [Requests -> Steps \cup SavingSteps \cup {"start", "done"}] BY <1>1
  <2>4. torn' \subseteq Lists BY <1>1, <1>2 DEF FilesTyped
  <2> QED BY <2>1, <2>2, <2>3, <2>4, <1>1, <1>2 DEF FilesTyped
<1>6. LifeInv'
  <2>1. \A q \in Requests : next[q] \in Goals(op[q]) BY DEF FilesInv, LifeInv
  <2>2. \A q \in Requests : Fits(op[q], pc'[q], held[q])
    BY <1>1, FitsStay DEF FilesInv, LifeInv, Waits
  <2> QED BY <2>1, <2>2, <1>1, <1>3 DEF LifeInv
<1>7. DescriptorInv' BY <1>3 DEF DescriptorInv, SavingSteps
<1>8. EntryInv' /\ ContentInv' BY <1>1 DEF FilesInv, EntryInv, ContentInv
<1>9. AloneInv' BY <1>3 DEF AloneInv, Saving, SavingSteps
<1>10. WrittenInv' BY <1>3 DEF WrittenInv, SavingSteps
<1>11. SavedInv'
  <2> SUFFICES ASSUME NEW c \in Lists, c \notin clash
               PROVE  \/ entry[c] = NoFile
                      \/ data[entry[c]] = Whole(expected[c])
                      \/ c \notin DOMAIN Temp /\ c \in torn'
    BY <1>1 DEF SavedInv, Whole
  <2> QED BY <1>1 DEF FilesInv, SavedInv
<1> QED BY <1>4, <1>5, <1>6, <1>7, <1>8, <1>9, <1>10, <1>11 DEF FilesInv

LEMMA NothingKeeps ==
  ASSUME FilesInv, UNCHANGED <<requestVars, fileVars, faults, crashes>>, up' \in BOOLEAN
  PROVE  FilesInv'
<1>1. RequestsTyped' /\ FilesTyped' BY DEF FilesInv, RequestsTyped, FilesTyped, requestVars, fileVars
<1>2. LifeInv' BY DEF FilesInv, LifeInv, requestVars
<1>3. DescriptorInv' /\ EntryInv' /\ ContentInv'
  BY DEF FilesInv, DescriptorInv, EntryInv, ContentInv, requestVars, fileVars
<1>4. AloneInv' BY DEF FilesInv, AloneInv, Saving, requestVars, fileVars
<1>5. WrittenInv' BY DEF FilesInv, WrittenInv, Whole, requestVars, fileVars
<1>6. SavedInv' BY DEF FilesInv, SavedInv, Whole, requestVars, fileVars
<1> QED BY <1>1, <1>2, <1>3, <1>4, <1>5, <1>6 DEF FilesInv

\* Whatever kind a step is of.
LEMMA StepsKeep ==
  ASSUME FilesInv, (\E r \in Requests : RequestStep(r)) \/ OtherStep
  PROVE  FilesInv'
<1>1. CASE OtherStep
  <2>1. FilesInv => up \in BOOLEAN BY DEF FilesInv, FilesTyped
  <2> QED BY <1>1, <2>1, CrashKeeps, NothingKeeps DEF OtherStep, faultVars
<1>2. CASE \E r \in Requests : RequestStep(r)
  BY <1>2, BetweenKeeps, SaveBeginsRight, RemovalKeeps, OpenKeeps, WriteKeeps, RenameKeeps, WriteFailsKeeps, LoadEndKeeps
     DEF RequestStep, OwnStep, SavesOn
<1> QED BY <1>1, <1>2

-----------------------------------------------------------------------------
\* Every step of every request is of one of these kinds.
LEMMA FamiliesAreApart ==
  ASSUME NEW o
  PROVE  /\ o \in SwapOps => o \in TradeOps
         /\ o \in PoolOps => o \notin TokenOps
         /\ o \in WalletOps => o \notin TokenOps \cup PoolOps
         /\ o \in TradeOps => o \notin TokenOps \cup PoolOps \cup WalletOps
         /\ o \in InstanceOps => o \notin TokenOps \cup PoolOps \cup WalletOps \cup TradeOps
         /\ o \in FeeOps \cup RpcOps => o \notin TokenOps \cup PoolOps \cup WalletOps \cup TradeOps \cup InstanceOps \cup LedgerOps
         /\ o \in LedgerOps => o \notin TokenOps \cup PoolOps \cup WalletOps \cup TradeOps \cup InstanceOps
<1> USE DEF TokenOps, PoolOps, WalletOps, WalletChanges, TradeOps, SwapOps, ClmmWrites, ClmmViews, AmmWrites, AmmViews,
            InstanceOps, Kinds, Connectors, OnSolana, OnEthereum, FeeOps, RpcOps, LedgerOps
<1>0. o \in SwapOps => o \in TradeOps OBVIOUS
<1>1. o \in PoolOps => o \notin TokenOps OBVIOUS
<1>2. o \in WalletOps => o \notin TokenOps \cup PoolOps OBVIOUS
<1>3. o \in TradeOps => o \notin TokenOps \cup PoolOps \cup WalletOps OBVIOUS
<1>4. o \in InstanceOps => o \notin TokenOps \cup PoolOps \cup WalletOps \cup TradeOps OBVIOUS
<1>5. o \in FeeOps \cup RpcOps => o \notin TokenOps \cup PoolOps \cup WalletOps \cup TradeOps \cup InstanceOps \cup LedgerOps
  OBVIOUS
<1>6. o \in LedgerOps => o \notin TokenOps \cup PoolOps \cup WalletOps \cup TradeOps \cup InstanceOps OBVIOUS
<1> QED BY ONLY <1>0, <1>1, <1>2, <1>3, <1>4, <1>5, <1>6

\* What any request may remember anywhere.
LEMMA NothingFits ==
  /\ Nothing \in Holds /\ Nothing.read = NotRead
  /\ \A o, s, h : h.read = NotRead /\ s # "tokenAdd" => Fits(o, s, h)
<1>1. Nothing \in Holds BY DEF Nothing, Holds, Contents, NotRead
<1>2. Nothing.read = NotRead BY DEF Nothing
<1>3. {} \in TokenLists /\ {} \in PoolLists BY DEF TokenLists, UniqueTokens, PoolLists, UniquePools
<1>4. NotRead.list = {} BY DEF NotRead
<1>5. \A o, s, h : h.read = NotRead /\ s # "tokenAdd" => Fits(o, s, h) BY <1>3, <1>4 DEF Fits
<1> QED BY <1>1, <1>2, <1>5

LEMMA OthersFit ==
  ASSUME NEW o \in WalletOps, NEW h, NEW s, s # "tokenAdd"
  PROVE  Fits(o, s, h)
BY FamiliesAreApart DEF Fits

LEMMA Readings ==
  ASSUME FilesInv
  PROVE  /\ IsWhole("tokens") => TheTokens \in TokenLists
         /\ IsWhole("pools") => ReadOf("pools") \in PoolLists
         /\ Hardware \subseteq KeyFiles /\ HardwareList \subseteq Entries
         /\ \A a \in KeyFiles : a \in Lists /\ ListsFor(a) = {{}, Legacy, Hardened}
         /\ ListsFor("tokens") = TokenLists /\ ListsFor("pools") = PoolLists /\ ListsFor("hardware") = SUBSET Entries
         /\ Nothing \in Holds
         /\ \A d \in Lists : ContentOf(d) \in Contents /\ ContentOf(d).list \in ListsFor(d) \cup {{}}
<1>1. \A d \in Lists : IsWhole(d) => ReadOf(d) \in ListsFor(d)
  BY NamesOfLists DEF FilesInv, ContentInv, IsWhole, ReadOf
<1>2. ListsFor("tokens") = TokenLists /\ ListsFor("pools") = PoolLists /\ ListsFor("hardware") = SUBSET Entries
  BY DEF ListsFor
<1>3. \A a \in KeyFiles : a \in Lists /\ ListsFor(a) = {{}, Legacy, Hardened}
  BY FilesAssumption, NamesOfLists DEF ListsFor
<1>4. IsWhole("tokens") => TheTokens \in TokenLists BY <1>1, <1>2, NamesOfLists DEF TheTokens
<1>5. IsWhole("pools") => ReadOf("pools") \in PoolLists BY <1>1, <1>2, NamesOfLists
<1>6. IsWhole("hardware") => ReadOf("hardware") \subseteq Entries BY <1>1, <1>2, NamesOfLists
<1>7. Hardware \subseteq KeyFiles BY <1>6 DEF Hardware, Entries, HardwareEntry
<1>8. HardwareList \subseteq Entries BY <1>7 DEF HardwareList, Entries
<1>9. ASSUME NEW d \in Lists
      PROVE  ContentOf(d) \in Contents /\ ContentOf(d).list \in ListsFor(d) \cup {{}}
  <2>1. d \in Names /\ ListOf(d) = d BY NamesOfLists
  <2>2. CASE entry[d] = NoFile BY <2>2 DEF ContentOf, Absent, Contents
  <2>3. CASE entry[d] # NoFile
    <3>1. entry[d] \in Inodes BY <2>1, <2>3 DEF FilesInv, FilesTyped
    <3>2. data[entry[d]] \in Contents BY <3>1 DEF FilesInv, FilesTyped, Contents
    <3>3. data[entry[d]].list \in ListsFor(d) BY <2>1, <2>3 DEF FilesInv, ContentInv
    <3> QED BY <3>2, <3>3, <2>3 DEF ContentOf
  <2> QED BY <2>2, <2>3
<1> QED BY <1>2, <1>3, <1>4, <1>5, <1>7, <1>8, <1>9, NothingFits

LEMMA ReturnIsBetween ==
  ASSUME FilesInv, NEW r \in Requests, pc[r] \notin SavingSteps \cup {"done"}, NEW a \in Answers, Return(r, a)
  PROVE  OwnStep(r)
<1>1. FilesTyped BY DEF FilesInv
<1>2. held[r] \in Holds /\ held' = [held EXCEPT ![r] = held[r]] BY <1>1 DEF FilesTyped, Return
<1>3. pc' = [pc EXCEPT ![r] = "done"] BY DEF Return, Answer
<1>4. answer' = [answer EXCEPT ![r] = a] BY DEF Return, Answer
<1>5. clash \subseteq clash' /\ clash' \subseteq Lists \cup Marks /\ faults' \in Nat /\ faults <= faults' /\ faults' + crashes <= MaxFaults
  BY <1>1 DEF FilesTyped, Return, fileVars, faultVars
<1>6. UNCHANGED <<op, arg, target, list, next, fd, entry, data, expected, torn, up, crashes>>
  BY DEF Return, fileVars, faultVars
<1>7. Fits(op[r], "done", held[r]) BY FitsStay DEF FilesInv, LifeInv
<1> QED BY <1>2, <1>3, <1>4, <1>5, <1>6, <1>7 DEF OwnStep, Between

LEMMA GoToIsBetween ==
  ASSUME FilesInv, NEW r \in Requests, pc[r] \notin SavingSteps \cup {"done"}, NEW s \in {pc[r]} \cup StepsOf(op[r]),
         NEW h \in Holds, Fits(op[r], s, h), GoTo(r, s, h)
  PROVE  OwnStep(r)
<1>1. FilesTyped BY DEF FilesInv
<1>2. pc' = [pc EXCEPT ![r] = s] /\ held' = [held EXCEPT ![r] = h] BY DEF GoTo
<1>3. answer[r] \in Answers /\ answer' = [answer EXCEPT ![r] = answer[r]] BY <1>1 DEF FilesTyped, GoTo
<1>4. clash \subseteq clash' /\ clash' \subseteq Lists \cup Marks /\ faults' \in Nat /\ faults <= faults' /\ faults' + crashes <= MaxFaults
  BY <1>1 DEF FilesTyped, GoTo, fileVars, faultVars
<1>5. UNCHANGED <<op, arg, target, list, next, fd, entry, data, expected, torn, up, crashes>>
  BY DEF GoTo, fileVars, faultVars
<1> QED BY <1>2, <1>3, <1>4, <1>5 DEF OwnStep, Between

LEMMA SaveIsBegun ==
  ASSUME FilesInv, NEW r \in Requests, pc[r] \notin SavingSteps \cup {"done"}, op[r] \in Savers,
         NEW d \in Lists, NEW l \in ListsFor(d), NEW n \in Goals(op[r]), NEW h \in Holds, Fits(op[r], "open", h),
         Save(r, d, l, n, h)
  PROVE  OwnStep(r)
<1>1. FilesTyped BY DEF FilesInv
<1>2. clash \subseteq clash' /\ clash' \subseteq Lists \cup Marks
  BY <1>1 DEF FilesTyped, Save, Overlapping, Stale, Marks
<1>3. (\E q \in Requests \ {r} : Saving(q, d)) => d \in clash' BY DEF Save, Overlapping
<1> QED BY <1>2, <1>3 DEF OwnStep, BeginsSave, Save

\* What is remembered, and one thing of it.
LEMMA StillHolds ==
  ASSUME NEW h \in Holds
  PROVE  /\ \A b \in BOOLEAN : [h EXCEPT !.flag = b] \in Holds
         /\ \A x \in SUBSET (Pools \cup KeyFiles) : [h EXCEPT !.old = x] \in Holds
         /\ \A x \in Seq(Tokens) : [h EXCEPT !.rest = x] \in Holds
         /\ \A x \in Contents : [h EXCEPT !.read = x] \in Holds
         /\ \A x : [h EXCEPT !.read = x].read = x /\ [h EXCEPT !.read = x].rest = h.rest
         /\ \A b, x : [h EXCEPT !.flag = b, !.read = x].read = x
         /\ \A b \in BOOLEAN, x \in Contents : [h EXCEPT !.flag = b, !.read = x] \in Holds
         /\ h.rest \in Seq(Tokens)
<1> DEFINE S == Seq(Tokens)
           O == SUBSET (Pools \cup KeyFiles)
<1>1. Holds = [flag : BOOLEAN, old : O, rest : S, read : Contents] BY DEF Holds
<1> HIDE DEF S, O
<1>2. \A b \in BOOLEAN : [h EXCEPT !.flag = b] \in Holds BY <1>1
<1>3. \A x \in O : [h EXCEPT !.old = x] \in Holds BY <1>1
<1>4. \A x \in S : [h EXCEPT !.rest = x] \in Holds BY <1>1
<1>5. h.rest \in S BY <1>1
<1>6. \A x \in Contents : [h EXCEPT !.read = x] \in Holds BY <1>1
<1>7. \A x : [h EXCEPT !.read = x].read = x /\ [h EXCEPT !.read = x].rest = h.rest BY <1>1
<1>8. \A b, x : [h EXCEPT !.flag = b, !.read = x].read = x BY <1>1
<1>9. \A b \in BOOLEAN, x \in Contents : [h EXCEPT !.flag = b, !.read = x] \in Holds BY <1>1
<1> QED BY <1>2, <1>3, <1>4, <1>5, <1>6, <1>7, <1>8, <1>9 DEF S, O

\* A request reads the list that it needs.
LEMMA ReadsIsBetween ==
  ASSUME FilesInv, NEW r \in Requests, pc[r] \notin SavingSteps \cup {"done"}, NEW d \in {"tokens", "pools"},
         op[r] \in TokenOps \/ pc[r] = "tokenAdd" => d = "tokens",
         op[r] \in PoolOps \cup SwapOps /\ pc[r] # "tokenAdd" => d = "pools",
         Reads(r, d)
  PROVE  OwnStep(r)
<1> DEFINE h == [held[r] EXCEPT !.read = ContentOf(d)]
<1>1. ContentOf(d) \in Contents /\ ContentOf(d).list \in ListsFor(d)
  <2>1. {} \in ListsFor(d) BY DEF ListsFor, TokenLists, UniqueTokens, PoolLists, UniquePools
  <2>2. d \in Lists BY NamesOfLists
  <2>3. ContentOf(d) \in Contents /\ ContentOf(d).list \in ListsFor(d) \cup {{}} BY <2>2, Readings
  <2> QED BY <2>1, <2>3
<1>2. held[r] \in Holds BY DEF FilesInv, FilesTyped
<1>3. h \in Holds /\ h.read = ContentOf(d) /\ h.rest = held[r].rest BY <1>1, <1>2, StillHolds
<1>4. pc[r] = "tokenAdd" => held[r].rest # << >> BY DEF FilesInv, LifeInv, Fits
<1>5. Fits(op[r], pc[r], h) BY <1>1, <1>3, <1>4, Readings DEF Fits
<1>6. GoTo(r, pc[r], h) BY DEF Reads
<1> HIDE DEF h
<1> QED BY <1>3, <1>5, <1>6, GoToIsBetween

LEMMA SavesOnIsSo ==
  ASSUME NEW r \in Requests, SavesOn(r)
  PROVE  OwnStep(r)
<1>1. pc[r] # "done" BY DEF SavesOn, Open, Write, Rename, WriteFails, At
<1> QED BY <1>1 DEF OwnStep

LEMMA ArgsAreTyped ==
  ASSUME FilesInv, NEW r \in Requests
  PROVE  /\ op[r] \in TokenOps => arg[r] \in Tokens
         /\ op[r] \in PoolOps => arg[r] \in Pools
         /\ op[r] \in WalletOps => arg[r] \in WalletArgs
         /\ op[r] \in TradeOps => arg[r] \in TradeArgs
         /\ op[r] \in FeeOps => arg[r] \in FeeArgs
         /\ op[r] \in LedgerOps => arg[r] \in LedgerArgs
<1>1. arg[r] \in ArgsOf(op[r]) BY DEF FilesInv, RequestsTyped
<1>2. op[r] \in TokenOps => arg[r] \in Tokens BY <1>1, FamiliesAreApart DEF ArgsOf
<1>3. op[r] \in PoolOps => arg[r] \in Pools BY <1>1, FamiliesAreApart DEF ArgsOf
<1>4. op[r] \in WalletOps => arg[r] \in WalletArgs BY <1>1, FamiliesAreApart DEF ArgsOf
<1>5. op[r] \in TradeOps => arg[r] \in TradeArgs BY <1>1, FamiliesAreApart DEF ArgsOf
<1>6. op[r] \in FeeOps => arg[r] \in FeeArgs BY <1>1, FamiliesAreApart DEF ArgsOf
<1>7. op[r] \in LedgerOps => arg[r] \in LedgerArgs BY <1>1, FamiliesAreApart DEF ArgsOf
<1> QED BY <1>2, <1>3, <1>4, <1>5, <1>6, <1>7

\* What the operations make of a list is a list again.
LEMMA TokenListsStay ==
  /\ \A l \in TokenLists, t \in Tokens : ~Conflicts(l, t) => WithToken(l, t) \in TokenLists
  /\ \A l \in TokenLists : \A m : l \ m \in TokenLists
<1>1. ASSUME NEW l \in TokenLists, NEW t \in Tokens, ~Conflicts(l, t)
      PROVE  WithToken(l, t) \in TokenLists
  <2>1. l \subseteq Tokens /\ UniqueTokens(l) BY DEF TokenLists
  <2>2. WithToken(l, t) \subseteq Tokens BY <2>1 DEF WithToken
  <2>3. \A x \in l \ SameSymbol(l, t) : x.symbol # t.symbol /\ x.address # t.address
    BY <1>1 DEF SameSymbol, SameAddress, Conflicts
  <2>4. UniqueTokens(WithToken(l, t)) BY <2>1, <2>3 DEF UniqueTokens, WithToken
  <2> QED BY <2>2, <2>4 DEF TokenLists
<1>2. \A l \in TokenLists : \A m : l \ m \in TokenLists BY DEF TokenLists, UniqueTokens
<1> QED BY <1>1, <1>2

LEMMA TokenStepsAreSo ==
  ASSUME FilesInv, NEW r \in Requests, op[r] \in TokenOps, TokenStep(r)
  PROVE  OwnStep(r)
<1> USE StepsAreApart DEF SavingSteps
<1>1. arg[r] \in Tokens /\ op[r] \in Savers BY ArgsAreTyped DEF Savers
<1>2. \A a \in {"ok", "not_found", "refused", "invalid", "error"} : pc[r] \in {"start", "add"} /\ Return(r, a) => OwnStep(r)
  BY ReturnIsBetween DEF Answers
<1>3. \A e \in DOMAIN TokenErrors : pc[r] \in {"start", "add"} /\ Return(r, TokenErrors[e]) => OwnStep(r)
  BY <1>2 DEF TokenErrors
<1>4. DOMAIN TokenErrors = {"missing", "chain", "malformed", "duplicate", "json", "other"} BY DEF TokenErrors
<1>5. ASSUME NEW l \in TokenLists, pc[r] \in {"start", "add"}, Save(r, "tokens", l, "done", Nothing)
      PROVE  OwnStep(r)
  BY <1>1, <1>5, SaveIsBegun, Readings, NothingFits, NamesOfLists DEF Goals
<1>11. TokensRead(r) \in TokenLists BY DEF FilesInv, LifeInv, Fits, TokensRead
<1>12. \A e \in DOMAIN TokenErrors : pc[r] \in {"start", "add"} /\ LoadTokens(r, TokenErrors[e]) => OwnStep(r)
  <2>1. pc[r] \in {"start", "add"} /\ Reads(r, "tokens") => OwnStep(r)
    BY FamiliesAreApart, ReadsIsBetween
  <2> QED BY <2>1, <1>3 DEF LoadTokens
<1>6. CASE AddToken(r)
  <2>1. pc[r] \in {"start", "add"} BY <1>6 DEF AddToken, Starts, At
  <2>2. CASE ~Conflicts(TokensRead(r), arg[r]) /\ Save(r, "tokens", WithToken(TokensRead(r), arg[r]), "done", Nothing)
    <3>1. WithToken(TokensRead(r), arg[r]) \in TokenLists BY <2>2, <1>1, <1>11, TokenListsStay
    <3> QED BY <3>1, <2>1, <2>2, <1>5
  <2> QED BY <2>1, <2>2, <1>3, <1>4, <1>6, <1>12 DEF AddToken, LoadAndAdd, ValidateToken
<1>7. CASE RemoveToken(r)
  <2>1. pc[r] \in {"start", "add"} BY <1>7 DEF RemoveToken, Starts
  <2>2. CASE Save(r, "tokens", TokensRead(r) \ SameAddress(TokensRead(r), arg[r]), "done", Nothing)
    <3>1. TokensRead(r) \ SameAddress(TokensRead(r), arg[r]) \in TokenLists BY <1>11, TokenListsStay
    <3> QED BY <3>1, <2>1, <2>2, <1>5
  <2> QED BY <2>1, <2>2, <1>3, <1>4, <1>7, <1>12 DEF RemoveToken, LoadAndRemove
<1>8. CASE GetToken(r) \/ ListTokens(r) \/ FindToken(r)
  <2>1. pc[r] \in {"start", "add"} BY <1>8 DEF GetToken, ListTokens, FindToken, Starts
  <2> QED BY <2>1, <1>2, <1>3, <1>4, <1>8 DEF GetToken, ListTokens, FindToken, TokensBroken, NoTokenInfo
<1>9. CASE FindAndSaveToken(r)
  <2>1. pc[r] \in {"start", "add"} BY <1>9 DEF FindAndSaveToken, Starts
  <2>2. CASE GoTo(r, "add", Nothing)
    <3>1. "add" \in StepsOf(op[r]) BY DEF StepsOf, TokenSteps, Steps
    <3> QED BY <3>1, <2>1, <2>2, GoToIsBetween, NothingFits
  <2> QED BY <2>1, <2>2, <1>2, <1>3, <1>4, <1>9 DEF FindAndSaveToken, TokensBroken, NoTokenInfo
<1>10. CASE SaveTokens(r)
  <2>1. TokenErrors.other \in Answers BY DEF TokenErrors, Answers
  <2> QED BY <2>1, <1>10, SavesOnIsSo DEF SaveTokens, SavesOn
<1> QED BY <1>6, <1>7, <1>8, <1>9, <1>10 DEF TokenStep

LEMMA PoolListsStay ==
  /\ \A l \in PoolLists : \A m : l \ m \in PoolLists
  /\ \A l \in PoolLists, p \in Pools : SameAddress(l, p) = {} => l \cup {p} \in PoolLists
  /\ \A l \in PoolLists, p \in Pools : \A old : SameAddress(l \ {old}, p) = {} => (l \ {old}) \cup {p} \in PoolLists
  /\ \A l \in PoolLists, p \in Pools : \A old \in SameAddress(l, p) : SameAddress(l \ {old}, p) = {}
<1>1. \A l \in PoolLists : \A m : l \ m \in PoolLists BY DEF PoolLists, UniquePools
<1>2. \A l \in PoolLists, p \in Pools : SameAddress(l, p) = {} => l \cup {p} \in PoolLists
  BY DEF PoolLists, UniquePools, SameAddress
<1>3. \A l \in PoolLists, p \in Pools : \A old \in SameAddress(l, p) : SameAddress(l \ {old}, p) = {}
  BY DEF PoolLists, UniquePools, SameAddress
<1> QED BY <1>1, <1>2, <1>3

\* Loading the list of pools: the list that a request goes on with is one.
LEMMA ThePoolsAreAList ==
  ASSUME FilesInv, NEW r \in Requests, op[r] \in PoolOps \cup SwapOps, pc[r] \notin {"tokenAdd", "done"}
  PROVE  ThePools(r) \in PoolLists
BY DEF FilesInv, LifeInv, Fits, ThePools

LEMMA LoadPoolsIsSo ==
  ASSUME FilesInv, NEW r \in Requests, op[r] \in PoolOps \cup SwapOps, pc[r] \notin SavingSteps \cup {"done"}, pc[r] # "tokenAdd",
         NEW status \in Answers, LoadPools(r, status)
  PROVE  OwnStep(r)
<1> DEFINE h == [held[r] EXCEPT !.flag = TRUE, !.read = Whole(Template)]
<1>1. CASE Save(r, "pools", Template, pc[r], h)
  <2>1. pc[r] \in Goals(op[r]) BY DEF FilesInv, LifeInv, Goals
  <2>2. held[r] \in Holds BY DEF FilesInv, FilesTyped
  <2>3. Template \in PoolLists BY PoolsAssumption
  <2>4. Whole(Template) \in Contents BY <2>3 DEF Whole, Contents, PoolLists, Elements
  <2>5. h \in Holds /\ h.read = Whole(Template) BY <2>2, <2>4, StillHolds
  <2> HIDE DEF h
  <2>6. h.read.list \in PoolLists BY <2>3, <2>5 DEF Whole
  <2>7. op[r] \notin TokenOps /\ op[r] \in Savers BY FamiliesAreApart DEF Savers
  <2>8. Fits(op[r], "open", h) BY <2>6, <2>7 DEF Fits
  <2>9. "pools" \in Lists /\ Template \in ListsFor("pools") BY <2>3, NamesOfLists, Readings
  <2> QED BY <1>1, <2>1, <2>5, <2>7, <2>8, <2>9, SaveIsBegun
<1>2. Reads(r, "pools") => OwnStep(r)
  BY FamiliesAreApart, ReadsIsBetween
<1> QED BY <1>1, <1>2, ReturnIsBetween DEF LoadPools

LEMMA PoolStepsAreSo ==
  ASSUME FilesInv, NEW r \in Requests, op[r] \in PoolOps, PoolStep(r)
  PROVE  OwnStep(r)
<1> DEFINE quiet == pc[r] \in {"start"} \cup (PoolSteps \ {"tokenAdd"})
<1>1. arg[r] \in Pools /\ op[r] \in Savers BY ArgsAreTyped DEF Savers
<1>2. quiet => pc[r] \notin SavingSteps \cup {"done"} /\ pc[r] # "tokenAdd" BY DEF PoolSteps, SavingSteps
<1>3. \A a \in {"ok", "not_found", "refused", "error"} : quiet /\ Return(r, a) => OwnStep(r)
  BY <1>2, ReturnIsBetween DEF Answers
<1>4. \A e \in DOMAIN PoolErrors : PoolErrors[e] \in {"not_found", "refused", "error"} BY DEF PoolErrors
<1>5. DOMAIN PoolErrors = {"missing", "chain", "connector", "other"} BY DEF PoolErrors
<1>6. PoolStatus(r) \in {"refused", "error"} BY DEF PoolErrors, PoolStatus
<1>7. \A a \in {"refused", "error"} : quiet /\ LoadPools(r, a) => OwnStep(r)
  BY <1>1, <1>2, LoadPoolsIsSo DEF Answers
<1>26. quiet => ThePools(r) \in PoolLists BY <1>2, ThePoolsAreAList
<1>8. \A s \in PoolSteps : s \in StepsOf(op[r]) BY DEF StepsOf, Steps
<1>9. \A s \in PoolSteps \ {"tokenAdd"}, h \in Holds : quiet /\ h.read = NotRead /\ GoTo(r, s, h) => OwnStep(r)
  BY <1>2, <1>8, GoToIsBetween, NothingFits
<1>10. \A l \in PoolLists, n \in {"done", "add"} : quiet /\ Save(r, "pools", l, n, Nothing) => OwnStep(r)
  BY <1>1, <1>2, <1>8, SaveIsBegun, Readings, NothingFits, NamesOfLists DEF Goals, PoolSteps
<1>11. \A p \in Pools : [Nothing EXCEPT !.old = {p}] \in Holds /\ [Nothing EXCEPT !.old = {p}].read = NotRead
  <2>1. \A p \in Pools : [Nothing EXCEPT !.old = {p}] \in Holds BY StillHolds, NothingFits
  <2>2. \A x : [Nothing EXCEPT !.old = x].read = NotRead BY DEF Nothing
  <2> QED BY <2>1, <2>2
<1>12. Nothing \in Holds /\ Nothing.read = NotRead /\ held[r] \in Holds BY NothingFits DEF FilesInv, FilesTyped
<1> HIDE DEF quiet
<1>13. CASE AddPoolRoute(r)
  <2>1. quiet BY <1>13 DEF AddPoolRoute, Starts, quiet
  <2>2. CASE /\ Loaded(r)
             /\ \E p \in SamePair(ThePools(r), arg[r]) :
                  GoTo(r, IF p.address = arg[r].address THEN "update" ELSE "pool", [Nothing EXCEPT !.old = {p}])
    <3>1. PICK p \in SamePair(ThePools(r), arg[r]) :
                  GoTo(r, IF p.address = arg[r].address THEN "update" ELSE "pool", [Nothing EXCEPT !.old = {p}])
      BY <2>2
    <3>2. p \in Pools BY <2>1, <1>26 DEF PoolLists, SamePair
    <3>3. [Nothing EXCEPT !.old = {p}] \in Holds /\ [Nothing EXCEPT !.old = {p}].read = NotRead BY <3>2, <1>11
    <3> QED BY <3>1, <3>3, <2>1, <1>9 DEF PoolSteps
  <2> QED BY <2>1, <2>2, <1>3, <1>7, <1>9, <1>12, <1>13 DEF AddPoolRoute, FetchPoolInfo, PoolSteps
<1>14. CASE PoolByAddress(r) \/ PoolKnown(r)
  <2>1. quiet BY <1>14 DEF PoolByAddress, PoolKnown, At, quiet, PoolSteps
  <2> QED BY <2>1, <1>4, <1>5, <1>7, <1>9, <1>12, <1>14 DEF PoolByAddress, PoolKnown, PoolSteps, PoolErrors
<1>15. CASE ReplacePool(r)
  <2>1. quiet BY <1>15 DEF ReplacePool, At, quiet, PoolSteps
  <2>2. ASSUME Loaded(r), NEW old, Save(r, "pools", ThePools(r) \ SameAddress(ThePools(r), old), "add", Nothing)
        PROVE  OwnStep(r)
    BY <2>1, <2>2, <1>10, <1>26, PoolListsStay
  <2> QED BY <2>1, <2>2, <1>3, <1>7, <1>15 DEF ReplacePool
<1>16. CASE UpdatePool(r)
  <2>1. quiet BY <1>16 DEF UpdatePool, At, quiet, PoolSteps
  <2>2. ASSUME Loaded(r), NEW old, ~AddressTaken(ThePools(r), old, arg[r]),
               Save(r, "pools", (ThePools(r) \ {old}) \cup {arg[r]}, "done", Nothing)
        PROVE  OwnStep(r)
    <3>1. (ThePools(r) \ {old}) \cup {arg[r]} \in PoolLists
      BY <2>1, <2>2, <1>1, <1>26, PoolListsStay DEF AddressTaken
    <3> QED BY <3>1, <2>1, <2>2, <1>10
  <2> QED BY <2>1, <2>2, <1>3, <1>6, <1>7, <1>16 DEF UpdatePool, ValidatePool
<1>17. CASE AddPool(r)
  <2>1. quiet BY <1>17 DEF AddPool, At, quiet, PoolSteps
  <2>2. ASSUME Loaded(r), SameAddress(ThePools(r), arg[r]) = {}, Save(r, "pools", ThePools(r) \cup {arg[r]}, "done", Nothing)
        PROVE  OwnStep(r)
    <3>1. ThePools(r) \cup {arg[r]} \in PoolLists BY <2>1, <2>2, <1>1, <1>26, PoolListsStay
    <3> QED BY <3>1, <2>1, <2>2, <1>10
  <2> QED BY <2>1, <2>2, <1>3, <1>6, <1>7, <1>17 DEF AddPool, ValidatePool
<1>18. CASE RemovePool(r)
  <2>1. quiet BY <1>18 DEF RemovePool, Starts, quiet
  <2>2. ASSUME Loaded(r), Save(r, "pools", ThePools(r) \ SameAddress(ThePools(r), arg[r]), "done", Nothing)
        PROVE  OwnStep(r)
    BY <2>1, <2>2, <1>10, <1>26, PoolListsStay
  <2> QED BY <2>1, <2>2, <1>3, <1>7, <1>18 DEF RemovePool, LoadAndRemovePool
<1>19. CASE ListPools(r) \/ GetPool(r) \/ FindPools(r) \/ FindPool(r)
  <2>1. quiet BY <1>19 DEF ListPools, GetPool, FindPools, FindPool, Starts, quiet
  <2> QED BY <2>1, <1>3, <1>4, <1>5, <1>7, <1>19
          DEF ListPools, GetPool, FindPools, FindPool, TokensBroken, TopPoolsForToken, TopPoolsByNetwork, NoPoolInfo
<1>20. CASE FindAndSavePool(r)
  <2>1. quiet BY <1>20 DEF FindAndSavePool, Starts, quiet
  <2>2. TokensOf(arg[r].pair) \in Seq(Tokens) BY <1>1, PoolsAssumption DEF Pools
  <2>3. ToDo(TokensOf(arg[r].pair)) \in Holds /\ ToDo(TokensOf(arg[r].pair)).read = NotRead
    BY <2>2, NothingFits, StillHolds DEF ToDo, Nothing
  <2> QED BY <2>1, <2>3, <1>3, <1>4, <1>5, <1>9, <1>20 DEF FindAndSavePool, NoPoolInfo, PoolSteps
<1>27. \A x : ToDo(x).read = NotRead /\ ToDo(x).rest = x BY DEF ToDo, Nothing
<1>21. /\ held[r].rest # << >> => Head(held[r].rest) \in Tokens /\ ToDo(Tail(held[r].rest)) \in Holds
       /\ ToDo(held[r].rest) \in Holds
  <2>1. held[r].rest \in Seq(Tokens) BY <1>12, StillHolds
  <2>2. held[r].rest # << >> => Head(held[r].rest) \in Tokens /\ Tail(held[r].rest) \in Seq(Tokens) BY <2>1
  <2>3. \A x \in Seq(Tokens) : ToDo(x) \in Holds BY <1>12, StillHolds DEF ToDo
  <2> QED BY <2>1, <2>2, <2>3
<1>22. CASE PoolToken(r)
  <2>1. quiet BY <1>22 DEF PoolToken, At, quiet, PoolSteps
  <2>2. held[r].rest # << >> /\ GoTo(r, "tokenAdd", ToDo(held[r].rest)) => OwnStep(r)
    <3>1. {} \in TokenLists /\ NotRead.list = {} BY DEF TokenLists, UniqueTokens, NotRead
    <3>2. held[r].rest # << >> => Fits(op[r], "tokenAdd", ToDo(held[r].rest)) BY <3>1, <1>27 DEF Fits
    <3> QED BY <3>2, <2>1, <1>2, <1>8, <1>21, GoToIsBetween DEF PoolSteps
  <2>3. PoolErrors.other \in {"error"} BY DEF PoolErrors
  <2> QED BY <2>1, <2>2, <2>3, <1>3, <1>9, <1>12, <1>21, <1>22, <1>27 DEF PoolToken, TokensBroken, PoolSteps
<1>23. CASE PoolTokenAdd(r)
  <2>1. pc[r] = "tokenAdd" /\ pc[r] \notin SavingSteps \cup {"done"} BY <1>23 DEF PoolTokenAdd, At, SavingSteps
  <2>2. held[r].rest # << >> /\ TokensRead(r) \in TokenLists BY <2>1 DEF FilesInv, LifeInv, Fits, TokensRead
  <2>3. "token" \in StepsOf(op[r]) BY <1>8 DEF PoolSteps
  <2>4. GoTo(r, "token", ToDo(Tail(held[r].rest))) => OwnStep(r) BY <2>1, <2>2, <2>3, <1>21, <1>27, GoToIsBetween, NothingFits
  <2>5. ASSUME NEW l \in TokenLists, Save(r, "tokens", l, "token", ToDo(Tail(held[r].rest)))
        PROVE  OwnStep(r)
    BY <2>1, <2>2, <2>3, <2>5, <1>1, <1>21, <1>27, SaveIsBegun, Readings, NothingFits, NamesOfLists DEF Goals
  <2>6. ~Conflicts(TokensRead(r), Head(held[r].rest)) => WithToken(TokensRead(r), Head(held[r].rest)) \in TokenLists
    BY <2>2, <1>21, TokenListsStay
  <2>7. Reads(r, "tokens") => OwnStep(r) BY <2>1, ReadsIsBetween
  <2> QED BY <2>4, <2>5, <2>6, <2>7, <1>23 DEF PoolTokenAdd
<1>24. CASE UpdatePoolByAddress(r)
  <2>1. quiet BY <1>24 DEF UpdatePoolByAddress, At, quiet, PoolSteps
  <2>2. ASSUME Loaded(r), NEW old \in SameAddress(ThePools(r), arg[r]),
               Save(r, "pools", (ThePools(r) \ {old}) \cup {arg[r]}, "done", Nothing)
        PROVE  OwnStep(r)
    <3>1. (ThePools(r) \ {old}) \cup {arg[r]} \in PoolLists BY <2>1, <2>2, <1>1, <1>26, PoolListsStay
    <3> QED BY <3>1, <2>1, <2>2, <1>10
  <2>3. PoolErrors.missing \in {"not_found"} /\ PoolErrors.other \in {"error"} BY DEF PoolErrors
  <2> QED BY <2>1, <2>2, <2>3, <1>3, <1>6, <1>7, <1>24 DEF UpdatePoolByAddress, ValidatePool
<1>25. CASE SavePools(r)
  <2>1. PoolStatus(r) \in Answers BY <1>6 DEF Answers
  <2>2. (ListOf(target[r]) = "tokens") \in BOOLEAN OBVIOUS
  <2> QED BY <2>1, <2>2, <1>25, SavesOnIsSo DEF SavePools, SavesOn
<1> QED BY <1>13, <1>14, <1>15, <1>16, <1>17, <1>18, <1>19, <1>20, <1>22, <1>23, <1>24, <1>25 DEF PoolStep

\* A change of the configuration is a step between two saves: its file is none of these.
LEMMA SetConfigIsBetween ==
  ASSUME FilesInv, NEW r \in Requests, pc[r] \notin SavingSteps \cup {"done"}, NEW c, SetConfig(r, c)
  PROVE  OwnStep(r)
<1>1. FilesTyped BY DEF FilesInv
<1>2. held[r] \in Holds /\ held' = [held EXCEPT ![r] = held[r]] BY <1>1 DEF FilesTyped, SetConfig
<1>3. pc' = [pc EXCEPT ![r] = "done"] /\ \E a \in Answers : answer' = [answer EXCEPT ![r] = a]
  <2>1. Answer(r, "ok") \/ Answer(r, "error") BY DEF SetConfig
  <2> QED BY <2>1 DEF Answer, Answers
<1>4. clash \subseteq clash' /\ clash' \subseteq Lists \cup Marks BY <1>1 DEF FilesTyped, SetConfig, fileVars
<1>5. faults' \in Nat /\ faults <= faults' /\ faults' + crashes <= MaxFaults
  <2>1. faults' = faults \/ (faults + crashes < MaxFaults /\ faults' = faults + 1) BY DEF SetConfig
  <2> QED BY <2>1, <1>1, FaultsAreBounded DEF FilesTyped
<1>6. UNCHANGED <<op, arg, target, list, next, fd, entry, data, expected, torn, up, crashes>>
  BY DEF SetConfig, fileVars
<1>7. Fits(op[r], "done", held[r]) BY FitsStay DEF FilesInv, LifeInv
<1> QED BY <1>2, <1>3, <1>4, <1>5, <1>6, <1>7 DEF OwnStep, Between

LEMMA WalletStepsAreSo ==
  ASSUME FilesInv, NEW r \in Requests, op[r] \in WalletOps, WalletStep(r)
  PROVE  OwnStep(r)
<1> DEFINE quiet == pc[r] \in {"start"} \cup WalletSteps
<1>1. arg[r] \in WalletArgs /\ op[r] \in Savers /\ FilesTyped BY ArgsAreTyped DEF Savers, FilesInv
<1>2. quiet => pc[r] \notin SavingSteps \cup {"done"} BY DEF WalletSteps, SavingSteps
<1>3. \A a \in {"ok", "not_found", "refused", "error"} : quiet /\ Return(r, a) => OwnStep(r)
  BY <1>2, ReturnIsBetween DEF Answers
<1>4. \A s \in WalletSteps : s \in StepsOf(op[r]) /\ s # "tokenAdd" BY DEF StepsOf, Steps, WalletSteps
<1>5. Nothing \in Holds /\ held[r] \in Holds BY <1>1, Readings DEF FilesTyped
<1>6. \A s \in WalletSteps, h \in Holds : quiet /\ GoTo(r, s, h) => OwnStep(r)
  BY <1>2, <1>4, GoToIsBetween, OthersFit
<1>7. \A s \in WalletSteps \cup {"done"} : s \in Goals(op[r]) BY <1>4 DEF Goals
<1>8. \A d \in Lists : \A l \in ListsFor(d), n \in WalletSteps \cup {"done"}, h \in Holds :
        quiet /\ Save(r, d, l, n, h) => OwnStep(r)
  BY <1>1, <1>2, <1>7, SaveIsBegun, OthersFit
<1>9. Marked(r) \subseteq Lists \cup Marks /\ clash \subseteq Marked(r) BY <1>1 DEF Marked, FilesTyped, Marks
<1>10. arg[r].wallet \in KeyFiles /\ arg[r].default \in BOOLEAN BY <1>1 DEF WalletArgs
<1>11. \A c : quiet /\ SetConfig(r, c) => OwnStep(r) BY <1>2, SetConfigIsBetween
<1>12. \A d \in Lists : \A l \in ListsFor(d), n \in WalletSteps \cup {"done"} : quiet /\ BeginSave(r, d, l, n) => OwnStep(r)
  <2> SUFFICES ASSUME NEW d \in Lists, NEW l \in ListsFor(d), NEW n \in WalletSteps \cup {"done"}, quiet, BeginSave(r, d, l, n)
               PROVE  OwnStep(r)
    OBVIOUS
  <2>1. held' = [held EXCEPT ![r] = held[r]] BY <1>1 DEF BeginSave, FilesTyped
  <2>2. clash \subseteq clash' /\ clash' \subseteq Lists \cup Marks BY <1>9 DEF BeginSave, Overlapping
  <2>3. (\E q \in Requests \ {r} : Saving(q, d)) => d \in clash' BY DEF BeginSave, Overlapping
  <2>5. Fits(op[r], "open", held[r]) BY OthersFit
  <2>4. BeginsSave(r) BY <2>1, <2>2, <2>3, <2>5, <1>1, <1>2, <1>5, <1>7 DEF BeginSave, BeginsSave
  <2> QED BY <2>4, <1>2 DEF OwnStep
<1>13. \A s \in WalletSteps, h \in Holds : quiet /\ BeginStep(r, s, h) => OwnStep(r)
  <2> SUFFICES ASSUME NEW s \in WalletSteps, NEW h \in Holds, quiet, BeginStep(r, s, h)
               PROVE  OwnStep(r)
    OBVIOUS
  <2>1. answer[r] \in Answers /\ answer' = [answer EXCEPT ![r] = answer[r]] BY <1>1 DEF BeginStep, FilesTyped
  <2>2. clash \subseteq clash' /\ clash' \subseteq Lists \cup Marks BY <1>9 DEF BeginStep
  <2>3. faults' \in Nat /\ faults <= faults' /\ faults' + crashes <= MaxFaults BY <1>1 DEF BeginStep, faultVars, FilesTyped
  <2>5. Fits(op[r], s, h) BY <1>4, OthersFit
  <2>4. Between(r) BY <2>1, <2>2, <2>3, <2>5, <1>2, <1>4 DEF BeginStep, Between, faultVars
  <2> QED BY <2>4, <1>2 DEF OwnStep
<1>14. ListsFor("hardware") = SUBSET Entries /\ HardwareList \subseteq Entries /\ "hardware" \in Lists /\ Hardware \subseteq KeyFiles
  BY Readings, NamesOfLists
<1>15. \A a \in KeyFiles : a \in Lists /\ Hardened \in ListsFor(a) BY Readings
<1> HIDE DEF quiet
<1>16. CASE UpdateConfig(r)
  <2>1. quiet BY <1>16 DEF UpdateConfig, Starts, quiet
  <2> QED BY <2>1, <1>3, <1>11, <1>16 DEF UpdateConfig
<1>17. CASE SetDefault(r) \/ NewDefault(r)
  <2>1. quiet BY <1>17 DEF SetDefault, NewDefault, At, quiet, WalletSteps
  <2> QED BY <2>1, <1>11, <1>17 DEF SetDefault, NewDefault
<1>18. CASE AddWallet(r)
  <2>1. quiet BY <1>18 DEF AddWallet, Begins, Starts, quiet
  <2> QED BY <2>1, <1>3, <1>10, <1>12, <1>15, <1>18 DEF AddWallet, Unacceptable, WalletSteps
<1>19. CASE Chmod(r)
  <2>1. quiet BY <1>19 DEF Chmod, Goes, At, quiet, WalletSteps
  <2> QED BY <2>1, <1>3, <1>5, <1>6, <1>19 DEF Chmod, WalletSteps
<1>20. CASE AddHardware(r)
  <2>1. quiet BY <1>20 DEF AddHardware, Begins, Starts, quiet
  <2>2. HardwareList \cup {HardwareEntry(arg[r].wallet)} \in ListsFor("hardware") BY <1>10, <1>14 DEF Entries
  <2> QED BY <2>1, <2>2, <1>3, <1>12, <1>14, <1>20 DEF AddHardware, Unacceptable, WalletSteps
<1>21. CASE SetDefaultRoute(r) \/ IsHardware(r)
  <2>1. quiet BY <1>21 DEF SetDefaultRoute, IsHardware, Begins, Goes, Starts, At, quiet, WalletSteps
  <2> QED BY <2>1, <1>3, <1>5, <1>6, <1>13, <1>21 DEF SetDefaultRoute, IsHardware, WalletSteps
<1>22. CASE RemoveWallet(r)
  <2>1. quiet BY <1>22 DEF RemoveWallet, Begins, Starts, quiet
  <2>2. [Nothing EXCEPT !.flag = IsDefault(r)] \in Holds
    <3>1. IsDefault(r) \in BOOLEAN BY DEF IsDefault
    <3> QED BY <3>1, <1>5, StillHolds
  <2> QED BY <2>1, <2>2, <1>3, <1>13, <1>22 DEF RemoveWallet, WalletSteps
<1>23. Afterwards(r) \in {"dir", "done"} BY DEF Afterwards
<1>24. CASE RemoveHardware(r)
  <2>1. quiet BY <1>24 DEF RemoveHardware, At, quiet, WalletSteps
  <2>2. HardwareList \ {HardwareEntry(arg[r].wallet)} \in ListsFor("hardware") BY <1>14
  <2>3. Afterwards(r) \in WalletSteps \cup {"done"} BY <1>23 DEF WalletSteps
  <2> QED BY <2>1, <2>2, <2>3, <1>3, <1>5, <1>8, <1>14, <1>24 DEF RemoveHardware
<1>25. CASE RemoveKey(r)
  <2>1. quiet BY <1>25 DEF RemoveKey, At, quiet, WalletSteps
  <2>2. Afterwards(r) \in {"done"} \cup (StepsOf(op[r]) \ {"tokenAdd"}) BY <1>4, <1>23 DEF WalletSteps
  <2>3. Fits(op[r], Afterwards(r), held[r]) BY <1>23, OthersFit
  <2> QED BY <2>1, <2>2, <2>3, <1>2, <1>5, <1>10, <1>25 DEF RemoveKey, OwnStep, Removes
<1>26. CASE RemainingKeys(r)
  <2>1. quiet BY <1>26 DEF RemainingKeys, Goes, At, quiet, WalletSteps
  <2>2. [held[r] EXCEPT !.old = {a \in KeyFiles : KeyExists(a)}] \in Holds BY <1>5, StillHolds
  <2> QED BY <2>1, <2>2, <1>6, <1>26 DEF RemainingKeys, WalletSteps
<1>27. CASE SignMessage(r)
  <2>1. quiet BY <1>27 DEF SignMessage, Begins, Starts, quiet
  <2>2. GetWallet(r) => \/ Return(r, "error") \/ Return(r, "ok") \/ Save(r, arg[r].wallet, Hardened, "chmod", Nothing)
    BY DEF GetWallet
  <2> QED BY <2>1, <2>2, <1>3, <1>5, <1>8, <1>10, <1>15, <1>27 DEF SignMessage, Unacceptable, WalletSteps
<1>28. CASE ListWallets(r)
  <2>1. quiet BY <1>28 DEF ListWallets, Begins, Starts, quiet
  <2> QED BY <2>1, <1>3, <1>28 DEF ListWallets
<1>29. CASE SaveWallets(r)
  <2>1. (op[r] = "use wallet") \in BOOLEAN OBVIOUS
  <2> QED BY <2>1, <1>29, SavesOnIsSo DEF SaveWallets, SavesOn, Answers
<1> QED BY <1>16, <1>17, <1>18, <1>19, <1>20, <1>21, <1>22, <1>24, <1>25, <1>26, <1>27, <1>28, <1>29 DEF WalletStep

LEMMA TradeStepsAreSo ==
  ASSUME FilesInv, NEW r \in Requests, op[r] \in TradeOps, TradeStep(r)
  PROVE  OwnStep(r)
<1>1. \A a \in {"ok", "not_found", "refused", "error"} : pc[r] = "start" /\ Return(r, a) => OwnStep(r)
  BY ReturnIsBetween DEF Answers, SavingSteps
<1>2. \A a \in {"not_found", "refused", "error"} : pc[r] = "start" /\ Fails(r, a) => OwnStep(r)
  BY <1>1 DEF Fails
<1>3. \A to, pools : pc[r] = "start" /\ Dispatch(r, to, pools) => OwnStep(r) BY <1>1 DEF Dispatch, ConnectorReplies
<1>4. \A o, connectors : ByConnector(r, o, connectors) => OwnStep(r) BY <1>2, <1>3 DEF ByConnector, Unparsed, Starts
<1>5. \A c : pc[r] = "start" /\ OfChain(r, c) => OwnStep(r) BY <1>2, <1>3 DEF OfChain
<1>6. pc[r] = "start" /\ (Unparsed(r) \/ UnknownChain(r)) => OwnStep(r) BY <1>2 DEF Unparsed, UnknownChain
<1>7. \A o : ByChain(r, o) => OwnStep(r) BY <1>5, <1>6 DEF ByChain, Starts
<1>8. ASSUME NEW providers, pc[r] = "start", op[r] \in SwapOps, Route(r, providers)
      PROVE  OwnStep(r)
  <2>1. LoadPools(r, "error") => OwnStep(r) BY <1>8, LoadPoolsIsSo DEF SavingSteps, Answers
  <2> QED BY <2>1, <1>2, <1>3, <1>8 DEF Route, RouteTo
<1>9. CASE QuoteSwap(r) \/ ExecuteSwap(r)
  <2>1. pc[r] = "start" /\ op[r] \in SwapOps BY <1>9 DEF QuoteSwap, ExecuteSwap, Starts, SwapOps
  <2> QED BY <2>1, <1>6, <1>8, <1>9
          DEF QuoteSwap, ExecuteSwap, QuoteSolanaSwap, QuoteEthereumSwap, ExecuteSolanaSwap, ExecuteEthereumSwap
<1>10. CASE SaveTemplate(r)
  BY <1>10, SavesOnIsSo DEF SaveTemplate, SavesOn, Answers
<1>11. CASE OpenPosition(r) \/ AddToPosition(r) \/ RemovePosition(r) \/ CollectFees(r) \/ ClosePosition(r) \/ CreateClmmPool(r)
  <2>1. AddToPosition(r) => OwnStep(r) BY <1>2, <1>4 DEF AddToPosition, Starts
  <2> QED BY <2>1, <1>4, <1>11 DEF OpenPosition, RemovePosition, CollectFees, ClosePosition, CreateClmmPool
<1>12. CASE ClmmPoolInfo(r) \/ ClmmPositionInfo(r) \/ ClmmPositionsOwned(r) \/ ClmmQuotePosition(r)
  <2>1. ClmmQuotePosition(r) => OwnStep(r)
    BY <1>5, <1>6 DEF ClmmQuotePosition, SolanaQuotePosition, EthereumQuotePosition, Starts
  <2> QED BY <2>1, <1>7, <1>12 DEF ClmmPoolInfo, ClmmPositionInfo, ClmmPositionsOwned
<1>13. CASE \/ AmmAddLiquidity(r) \/ AmmRemoveLiquidity(r) \/ AmmCreatePool(r) \/ AmmExecuteSwap(r)
            \/ AmmPoolInfo(r) \/ AmmPositionInfo(r) \/ AmmPositionsOwned(r) \/ AmmQuoteSwap(r) \/ AmmQuoteLiquidity(r)
  BY <1>4, <1>13 DEF AmmAddLiquidity, AmmRemoveLiquidity, AmmCreatePool, AmmExecuteSwap, AmmPoolInfo, AmmPositionInfo,
     AmmPositionsOwned, AmmQuoteSwap, AmmQuoteLiquidity
<1> QED BY <1>9, <1>10, <1>11, <1>12, <1>13 DEF TradeStep

LEMMA InstanceStepsAreSo ==
  ASSUME FilesInv, NEW r \in Requests, op[r] \in InstanceOps, InstanceStep(r)
  PROVE  OwnStep(r) \/ (LoadDlmmPool(r) /\ LoadEnds(r))
<1> DEFINE quiet == pc[r] \in {"start"} \cup InstanceSteps
<1>1. quiet => pc[r] \notin SavingSteps \cup {"done"} BY DEF InstanceSteps, SavingSteps
<1>2. \A a \in {"ok", "error"} : quiet /\ Return(r, a) => OwnStep(r) BY <1>1, ReturnIsBetween DEF Answers
<1>3. \A s \in InstanceSteps : s \in StepsOf(op[r]) /\ s # "tokenAdd" BY DEF StepsOf, Steps, InstanceSteps
<1>4. \A s \in InstanceSteps : quiet /\ GoTo(r, s, Nothing) => OwnStep(r)
  BY <1>1, <1>3, GoToIsBetween, NothingFits
<1> HIDE DEF quiet
<1>5. \A s \in InstanceSteps : quiet /\ Moves(r, s) => OwnStep(r) BY <1>4 DEF Moves
<1>6. \A i : quiet /\ Ends(r, i) => OwnStep(r) BY <1>2 DEF Ends
<1>7. quiet /\ GetsNone(r) => OwnStep(r) BY <1>2 DEF GetsNone
<1>8. \A k : GetInstance(r, k) => OwnStep(r) BY <1>5, <1>6 DEF GetInstance, Starts, quiet, InstanceSteps
<1>9. GetConnector(r) => OwnStep(r)
  BY <1>7, <1>8 DEF GetConnector, GetUniswap, GetPancakeswap, GetZeroX, GetRaydium, GetMeteora, GetOrca, GetPancakeswapSol,
     GetJupiter, GetTitan, GetDFlow, GetOkx, Starts, quiet
<1>10. \A map, done, nodes : quiet /\ GoesOn(r, map, done, nodes) => OwnStep(r)
  BY <1>5, <1>6, <1>7 DEF GoesOn, InstanceSteps
<1>11. \A k : GetChain(r, k) => OwnStep(r)
  BY <1>5, <1>6, <1>10 DEF GetChain, Starts, At, quiet, InstanceSteps
<1>12. \A k : InitChain(r, k) => OwnStep(r)
  BY <1>6, <1>10 DEF InitChain, At, quiet, InstanceSteps
<1>13. InitRaydium(r) => OwnStep(r) BY <1>6, <1>7 DEF InitRaydium, At, quiet, InstanceSteps
<1>14. GetDlmmPool(r) => OwnStep(r) BY <1>2, <1>4 DEF GetDlmmPool, Starts, quiet, InstanceSteps
<1>15. CASE LoadDlmmPool(r)
  <2>1. FilesTyped BY DEF FilesInv
  <2>2. answer' \in [Requests -> Answers] BY <2>1, <1>15 DEF LoadDlmmPool, FilesTyped, Answers
  <2> QED BY <2>2, <1>15 DEF LoadDlmmPool, LoadEnds, At
<1> QED BY <1>9, <1>11, <1>12, <1>13, <1>14, <1>15 DEF InstanceStep, GetSolana, GetEthereum, InitSolana, InitEthereum

LEMMA FeeStepsAreSo ==
  ASSUME FilesInv, NEW r \in Requests, op[r] \in FeeOps \cup RpcOps, FeeStep(r)
  PROVE  OwnStep(r)
<1> DEFINE quiet == pc[r] \in {"start"} \cup FeeSteps
<1>1. quiet => pc[r] \notin SavingSteps \cup {"done"} BY DEF FeeSteps, SavingSteps
<1>2. \A a \in {"ok", "error", "refused"} : quiet /\ Return(r, a) => OwnStep(r) BY <1>1, ReturnIsBetween DEF Answers
<1>3. \A s \in FeeSteps : s \in StepsOf(op[r]) /\ s # "tokenAdd" BY DEF StepsOf, Steps, FeeSteps
<1>4. \A s \in FeeSteps : quiet /\ GoTo(r, s, Nothing) => OwnStep(r)
  BY <1>1, <1>3, GoToIsBetween, NothingFits
<1> HIDE DEF quiet
<1>5. \A s \in FeeSteps : quiet /\ Awaits(r, s) => OwnStep(r) BY <1>4 DEF Awaits
<1>6. \A e : quiet /\ Uses(r, e) => OwnStep(r) BY <1>2 DEF Uses
<1>7. quiet /\ NoFee(r) => OwnStep(r) BY <1>2 DEF NoFee
<1>8. quiet /\ EstimateGasPrice(r) => OwnStep(r) BY <1>5, <1>6 DEF EstimateGasPrice, FeeSteps
<1>9. GasRequest(r) => OwnStep(r) BY <1>6, <1>8 DEF GasRequest, PrepareGasOptions, Starts, quiet
<1>10. NetworkFees(r) => OwnStep(r) BY <1>5, <1>6 DEF NetworkFees, At, quiet, FeeSteps
<1>11. LegacyPrice(r) => OwnStep(r) BY <1>6, <1>7 DEF LegacyPrice, At, quiet, FeeSteps
<1>12. PriorityRequest(r) => OwnStep(r)
  BY <1>5, <1>6, <1>7 DEF PriorityRequest, PriorityFee, EstimateGasSolana, Starts, quiet, FeeSteps
<1>13. HeliusFee(r) => OwnStep(r) BY <1>6 DEF HeliusFee, At, quiet, FeeSteps
<1>14. Call(r) => OwnStep(r) BY <1>4 DEF Call, Starts, quiet, FeeSteps
<1>15. Attempt(r) => OwnStep(r) BY <1>2, <1>4 DEF Attempt, At, quiet, FeeSteps
<1>16. Awake(r) => OwnStep(r) BY <1>4 DEF Awake, At, quiet, FeeSteps
<1> QED BY <1>9, <1>10, <1>11, <1>12, <1>13, <1>14, <1>15, <1>16 DEF FeeStep

LEMMA LedgerStepsAreSo ==
  ASSUME FilesInv, NEW r \in Requests, op[r] \in LedgerOps, LedgerStep(r)
  PROVE  OwnStep(r)
<1> DEFINE quiet == pc[r] \in {"start"} \cup LedgerSteps
<1>1. quiet => pc[r] \notin SavingSteps \cup {"done"} BY DEF LedgerSteps, SavingSteps
<1>2. \A a \in {"ok", "error", "refused"} : quiet /\ Return(r, a) => OwnStep(r) BY <1>1, ReturnIsBetween DEF Answers
<1>3. \A s \in LedgerSteps : s \in StepsOf(op[r]) /\ s # "tokenAdd" BY DEF StepsOf, Steps, LedgerSteps
<1>4. \A s \in LedgerSteps : quiet /\ GoTo(r, s, Nothing) => OwnStep(r)
  BY <1>1, <1>3, GoToIsBetween, NothingFits
<1> HIDE DEF quiet
<1>5. \A m, s : \A step \in LedgerSteps : quiet /\ Does(r, m, s, step) => OwnStep(r) BY <1>4 DEF Does
<1>6. \A m, s : \A a \in {"ok", "error", "refused"} : quiet /\ Tells(r, m, s, a) => OwnStep(r) BY <1>2 DEF Tells
<1>7. NoAddress(r) \in {"error", "refused"} BY DEF NoAddress
<1>8. \A m, s : quiet /\ Create(r, m, s) => OwnStep(r) BY <1>5, <1>6, <1>7 DEF Create, LedgerSteps
<1>9. \A m, s : quiet /\ Ended(r, m, s) => OwnStep(r) BY <1>6, <1>8 DEF Ended
<1>10. \A m, s : quiet /\ Finally(r, m, s) => OwnStep(r) BY <1>5, <1>9 DEF Finally, LedgerSteps
<1>11. CloseTransport(r) => OwnStep(r) BY <1>5, <1>9 DEF CloseTransport, At, quiet, LedgerSteps
<1>12. OpenTransport(r) => OwnStep(r) BY <1>5, <1>10 DEF OpenTransport, At, quiet, LedgerSteps
<1>13. GetAddress(r) \/ SignTransaction(r) => OwnStep(r)
  BY <1>10 DEF GetAddress, SignTransaction, At, quiet, LedgerSteps
<1>14. AddFromLedger(r) => OwnStep(r) BY <1>6, <1>8 DEF AddFromLedger, Starts, quiet
<1>15. SignForSolana(r) \/ SignForEthereum(r) => OwnStep(r)
  BY <1>6, <1>8 DEF SignForSolana, SignForEthereum, Sign, Starts, quiet
<1> QED BY <1>11, <1>12, <1>13, <1>14, <1>15 DEF LedgerStep

LEMMA NextIsSo ==
  ASSUME FilesInv, [Next]_vars
  PROVE  (\E r \in Requests : RequestStep(r)) \/ OtherStep
<1>1. CASE UNCHANGED vars BY <1>1 DEF vars, OtherStep
<1>2. CASE \E c \in Caches : Expire(c) BY <1>2 DEF Expire, OtherStep
<1>3. CASE Crash BY <1>3 DEF Crash, OtherStep
<1>4. CASE Restart BY <1>4 DEF Restart, OtherStep
<1>5. CASE \E r \in Requests : \/ op[r] \in TokenOps /\ TokenStep(r)
                               \/ op[r] \in PoolOps /\ PoolStep(r)
                               \/ op[r] \in WalletOps /\ WalletStep(r)
                               \/ op[r] \in TradeOps /\ TradeStep(r)
                               \/ op[r] \in InstanceOps /\ InstanceStep(r)
                               \/ op[r] \in FeeOps \cup RpcOps /\ FeeStep(r)
                               \/ op[r] \in LedgerOps /\ LedgerStep(r)
  BY <1>5, TokenStepsAreSo, PoolStepsAreSo, WalletStepsAreSo, TradeStepsAreSo, InstanceStepsAreSo, FeeStepsAreSo, LedgerStepsAreSo
     DEF RequestStep
<1> QED BY <1>1, <1>2, <1>3, <1>4, <1>5 DEF Next

-----------------------------------------------------------------------------
\* In the beginning the files are the lists that there are.
LEMMA FirstInodeIsOne ==
  /\ FirstInode \in [Lists -> 1..Cardinality(Lists)]
  /\ \A c, d \in Lists : FirstInode[c] = FirstInode[d] => c = d
<1>1. ExistsBijection(1..Cardinality(Lists), Lists) BY NamesAreFinite, FS_CardinalityType
<1>2. ExistsBijection(Lists, 1..Cardinality(Lists)) BY <1>1, Fun_ExistsBijSymmetric
<1>3. PICK f : f \in Bijection(Lists, 1..Cardinality(Lists)) BY <1>2 DEF ExistsBijection
<1>4. f \in [Lists -> 1..Cardinality(Lists)] /\ \A c, d \in Lists : f[c] = f[d] => c = d
  BY <1>3, Fun_BijectionProperties
<1> QED BY <1>4 DEF FirstInode

LEMMA FilesBeginRight ==
  ASSUME NEW initial, NEW present \in SUBSET Lists, FilesInit(initial, present),
         initial = [d \in Lists |-> initial[d]], \A d \in Lists : initial[d] \in ListsFor(d)
  PROVE  FilesTyped /\ LifeInv /\ DescriptorInv /\ EntryInv /\ ContentInv /\ AloneInv /\ WrittenInv /\ SavedInv
<1>1. \A r \in Requests : /\ pc[r] = "start" /\ held[r] = Nothing /\ target[r] = "tokens" /\ list[r] = {}
                          /\ next[r] = "done" /\ fd[r] = NoFile
  BY DEF FilesInit
<1>2. \A d \in present : FirstInode[d] \in Inodes /\ FirstInode[d] # NoFile
  BY FirstInodeIsOne, NamesAreFinite DEF Inodes, NoFile
<1>3. \A n \in Names : entry[n] = IF n \in present THEN FirstInode[n] ELSE NoFile BY DEF FilesInit
<1>4. \A d \in present : data[entry[d]] = Whole(initial[d])
  <2> SUFFICES ASSUME NEW d \in present PROVE data[FirstInode[d]] = Whole(initial[d]) BY <1>3, NamesOfLists
  <2> DEFINE c == CHOOSE x \in present : FirstInode[x] = FirstInode[d]
  <2>1. c \in present /\ FirstInode[c] = FirstInode[d] OBVIOUS
  <2>2. c = d BY <2>1, FirstInodeIsOne
  <2>3. data[FirstInode[d]] = Whole(initial[c]) BY <1>2 DEF FilesInit
  <2> QED BY <2>2, <2>3
<1>5. {} \in ListsFor("tokens") BY DEF ListsFor, TokenLists, UniqueTokens
<1>6. FilesTyped
  <2>1. entry \in [Names -> Inodes \cup {NoFile}] BY <1>2, <1>3 DEF FilesInit
  <2>2. \A d \in Lists : initial[d] \subseteq Elements BY ListsHaveElements
  <2>3. data \in [Inodes -> [state : {"whole", "empty", "part"}, list : SUBSET Elements]]
    <3>1. \A d \in present : Whole(initial[d]) \in [state : {"whole", "empty", "part"}, list : SUBSET Elements]
      BY <2>2 DEF Whole
    <3>2. Empty \in [state : {"whole", "empty", "part"}, list : SUBSET Elements] BY DEF Empty
    <3> QED BY <3>1, <3>2 DEF FilesInit
  <2>4. expected \in [Lists -> SUBSET Elements] BY <2>2 DEF FilesInit
  <2>5. held \in [Requests -> Holds]
    <3>1. Nothing \in Holds BY NothingFits
    <3> QED BY <3>1 DEF FilesInit
  <2>6. target \in [Requests -> Names] /\ list \in [Requests -> SUBSET Elements] BY NamesOfLists DEF FilesInit
  <2>7. /\ pc \in [Requests -> Steps \cup SavingSteps \cup {"start", "done"}]
        /\ next \in [Requests -> Steps \cup {"start", "done"}]
        /\ fd \in [Requests -> Inodes \cup {NoFile}]
        /\ answer \in [Requests -> Answers]
    BY DEF FilesInit, Answers
  <2>8. clash = {} /\ torn = {} /\ up = TRUE /\ faults = 0 /\ crashes = 0 BY DEF FilesInit
  <2>9. 0 + 0 <= MaxFaults BY FaultsAreBounded
  <2> QED BY <2>1, <2>3, <2>4, <2>5, <2>6, <2>7, <2>8, <2>9 DEF FilesTyped
<1>7. LifeInv BY <1>1, NothingFits DEF LifeInv, Goals, SavingSteps
<1>8. DescriptorInv BY <1>1 DEF DescriptorInv, SavingSteps
<1>9. EntryInv BY <1>3, FirstInodeIsOne DEF EntryInv
<1>10. ContentInv
  <2>1. \A n \in Names : entry[n] # NoFile => n \in present BY <1>3
  <2>2. \A n \in present : ListOf(n) = n BY NamesOfLists
  <2>3. \A n \in present : data[entry[n]].list = initial[n]
    <3>1. \A l : Whole(l).list = l BY DEF Whole
    <3> QED BY <3>1, <1>4
  <2>6. \A n \in Names : entry[n] # NoFile => data[entry[n]].list \in ListsFor(ListOf(n))
    BY <2>1, <2>2, <2>3
  <2>4. ListOf("tokens") = "tokens" BY NamesOfLists
  <2>5. \A d \in Lists : expected[d] \in ListsFor(d) BY DEF FilesInit
  <2> QED BY <2>4, <2>5, <2>6, <1>1, <1>5 DEF ContentInv
<1>11. AloneInv /\ WrittenInv BY <1>1 DEF AloneInv, Saving, WrittenInv
<1>12. SavedInv
  <2>1. \A d \in Lists : entry[d] = NoFile \/ d \in present BY <1>3, NamesOfLists
  <2>2. expected = initial BY DEF FilesInit
  <2> QED BY <2>1, <2>2, <1>4 DEF SavedInv
<1> QED BY <1>6, <1>7, <1>8, <1>9, <1>10, <1>11, <1>12

LEMMA InitIsSo ==
  ASSUME Init
  PROVE  FilesInv
<1>1. PICK tokens \in TokenLists, pools \in PoolLists, hardware \in SUBSET {HardwareEntry(a) : a \in KeyFiles},
           keys \in [KeyFiles -> {{}} \cup {{c} : c \in Ciphers}], missing \in SUBSET {"pools", "hardware"} :
        ConfInit(tokens, pools, hardware, keys, {"tokens", "pools", "hardware"} \ missing)
  BY DEF Init
<1> DEFINE initial == [d \in Lists |-> CASE d = "tokens" -> tokens [] d = "pools" -> pools
                                         [] d = "hardware" -> hardware [] OTHER -> keys[d]]
           present == ({"tokens", "pools", "hardware"} \ missing) \cup {a \in KeyFiles : keys[a] # {}}
<1>2. FilesInit(initial, present) BY <1>1 DEF ConfInit
<1>3. present \in SUBSET Lists BY NamesOfLists
<1>4. ASSUME NEW d \in Lists
      PROVE  initial[d] \in ListsFor(d)
  <2>1. CASE d \in {"tokens", "pools", "hardware"} BY <2>1 DEF ListsFor, Entries
  <2>2. CASE d \notin {"tokens", "pools", "hardware"}
    <3>1. d \in KeyFiles /\ initial[d] = keys[d] BY <2>2 DEF Lists
    <3>2. keys[d] \in {{}} \cup {{c} : c \in Ciphers} BY <3>1
    <3>3. {{}} \cup {{c} : c \in Ciphers} = {{}, Legacy, Hardened} BY DEF Ciphers, Legacy, Hardened
    <3> QED BY <2>2, <3>1, <3>2, <3>3 DEF ListsFor
  <2> QED BY <2>1, <2>2
<1>5. FilesTyped /\ LifeInv /\ DescriptorInv /\ EntryInv /\ ContentInv /\ AloneInv /\ WrittenInv /\ SavedInv
  <2> HIDE DEF initial, present
  <2>1. initial = [d \in Lists |-> initial[d]] BY DEF initial
  <2> QED BY <2>1, <1>2, <1>3, <1>4, FilesBeginRight
<1>6. RequestsTyped
  <2>1. RequestsInit BY DEF Init
  <2> QED BY <2>1 DEF RequestsInit, RequestsTyped
<1> QED BY <1>5, <1>6 DEF FilesInv

\* So it always holds.
LEMMA FilesAreInvariant == Spec => []FilesInv
<1>1. Init => FilesInv BY InitIsSo
<1>2. FilesInv /\ [Next]_vars => FilesInv' BY NextIsSo, StepsKeep
<1> QED BY <1>1, <1>2, PTL DEF Spec

\* Files as they were saved: in every state the token and pool lists are what the last
\* successful change made of them, in spite of failing disks and crashes, unless two changes
\* overlapped; and so are the others unless they are being written or were cut short.
THEOREM FilesAreAsSaved == Spec => []FilesAsSaved
<1>1. FilesInv => FilesAsSaved
  <2> SUFFICES ASSUME FilesInv, NEW d \in Lists \ clash, entry[d] # NoFile
               PROVE  \/ IsWhole(d) /\ ReadOf(d) = expected[d]
                      \/ d \notin DOMAIN Temp /\ (d \in torn \/ \E r \in Requests : Saving(r, d))
    BY DEF FilesAsSaved
  <2>1. CASE data[entry[d]] = Whole(expected[d]) BY <2>1 DEF IsWhole, ReadOf, Whole
  <2>2. CASE d \notin DOMAIN Temp /\ (d \in torn \/ \E r \in Requests : pc[r] = "write" /\ target[r] = d)
    <3>1. ListOf(d) = d BY NamesOfLists
    <3> QED BY <2>2, <3>1 DEF Saving
  <2> QED BY <2>1, <2>2 DEF FilesInv, SavedInv
<1> QED BY <1>1, FilesAreInvariant, PTL

\* No list that can be read has a token, or a pool, twice, however the changes overlapped.
THEOREM EntriesAreUnique == Spec => []UniqueEntries
<1>1. FilesInv => UniqueEntries
  BY Readings DEF UniqueEntries, TheTokens, TokenLists, PoolLists
<1> QED BY <1>1, FilesAreInvariant, PTL

-----------------------------------------------------------------------------
\* A step of one request leaves the others where they are, and a request that is done is done.
LEMMA OthersStay ==
  ASSUME FilesInv, NEW r \in Requests, OwnStep(r)
  PROVE  /\ UNCHANGED <<op, arg, crashes, up>> /\ pc[r] # "done"
         /\ \A q \in Requests : q # r =>
              /\ pc'[q] = pc[q] /\ held'[q] = held[q] /\ answer'[q] = answer[q]
              /\ target'[q] = target[q] /\ list'[q] = list[q] /\ next'[q] = next[q]
<1>1. /\ UNCHANGED <<op, arg, crashes, up>>
      /\ \E s : pc' = [pc EXCEPT ![r] = s]
      /\ held' = held \/ \E h : held' = [held EXCEPT ![r] = h]
      /\ answer' = answer \/ \E a : answer' = [answer EXCEPT ![r] = a]
      /\ (UNCHANGED <<target, list, next>>) \/
           \E t, l, n : target' = [target EXCEPT ![r] = t] /\ list' = [list EXCEPT ![r] = l] /\ next' = [next EXCEPT ![r] = n]
  <2>1. CASE Between(r) BY <2>1 DEF Between
  <2>2. CASE BeginsSave(r)
    <3>1. PICK d \in Lists : \E l \in ListsFor(d), n \in Goals(op[r]), h \in Holds :
            /\ pc' = [pc EXCEPT ![r] = "open"]
            /\ target' = [target EXCEPT ![r] = SavesTo(d)]
            /\ list' = [list EXCEPT ![r] = l]
            /\ next' = [next EXCEPT ![r] = n]
            /\ held' = [held EXCEPT ![r] = h] /\ Fits(op[r], "open", h)
            /\ clash \subseteq clash' /\ clash' \subseteq Lists \cup Marks
            /\ (\E q \in Requests \ {r} : Saving(q, d)) => d \in clash'
      BY <2>2 DEF BeginsSave
    <3>2. PICK l \in ListsFor(d), n \in Goals(op[r]), h \in Holds :
            /\ pc' = [pc EXCEPT ![r] = "open"] /\ held' = [held EXCEPT ![r] = h]
            /\ target' = [target EXCEPT ![r] = SavesTo(d)] /\ list' = [list EXCEPT ![r] = l]
            /\ next' = [next EXCEPT ![r] = n]
      BY <3>1
    <3>3. UNCHANGED <<op, arg, answer, faultVars>> BY <2>2 DEF BeginsSave
    <3>4. UNCHANGED <<op, arg, answer, crashes, up>> BY <3>3 DEF faultVars
    <3> QED BY <3>2, <3>4
  <2>3. CASE Removes(r) BY <2>3 DEF Removes, Unlink, faultVars
  <2>4. CASE Open(r) \/ Write(r) BY <2>4 DEF Open, Write, faultVars
  <2>5. CASE \E swallows \in BOOLEAN, status \in Answers : Rename(r, swallows, status) \/ WriteFails(r, swallows, status)
    <3>1. PICK swallows \in BOOLEAN, status \in Answers : Rename(r, swallows, status) \/ WriteFails(r, swallows, status)
      BY <2>5
    <3> QED BY <3>1 DEF Rename, WriteFails, Throws, Answer, faultVars
  <2> QED BY <2>1, <2>2, <2>3, <2>4, <2>5 DEF OwnStep, SavesOn
<1> QED BY <1>1 DEF OwnStep, FilesInv, FilesTyped

\* A crash leaves the requests that were not sent, and no other in the middle of anything.
LEMMA AfterCrash ==
  ASSUME FilesInv, CrashFiles
  PROVE  /\ UNCHANGED <<op, arg, held>> /\ up' = FALSE
         /\ \A q \in Requests : /\ pc'[q] \in {"start", "done"} /\ (pc'[q] = "start" => Waits(q))
                                /\ pc[q] = "done" => pc'[q] = "done" /\ answer'[q] = answer[q]
                                /\ answer'[q] # answer[q] => answer'[q] = "lost"
BY DEF CrashFiles, Waits

\* The steps of a request are those of its family.
LEMMA StepsOfFamilies ==
  ASSUME FilesInv, NEW r \in Requests
  PROVE  /\ op[r] \notin InstanceOps => pc[r] \notin InstanceSteps
         /\ op[r] \notin LedgerOps => pc[r] \notin LedgerSteps
         /\ op[r] \notin FeeOps \cup RpcOps => pc[r] \notin FeeSteps
         /\ op[r] \notin WalletOps => pc[r] \notin WalletSteps
         /\ op[r] \in Savers \/ pc[r] \notin SavingSteps
<1>1. pc[r] \in {"start", "done"} \cup SavingSteps \cup StepsOf(op[r]) BY DEF FilesInv, LifeInv
<1> USE DEF TokenSteps, PoolSteps, WalletSteps, InstanceSteps, FeeSteps, LedgerSteps
<1>2. op[r] \notin InstanceOps => pc[r] \notin InstanceSteps BY <1>1 DEF StepsOf, SavingSteps
<1>3. op[r] \notin LedgerOps => pc[r] \notin LedgerSteps BY <1>1 DEF StepsOf, SavingSteps
<1>4. op[r] \notin FeeOps \cup RpcOps => pc[r] \notin FeeSteps BY <1>1 DEF StepsOf, SavingSteps
<1>5. op[r] \notin WalletOps => pc[r] \notin WalletSteps BY <1>1 DEF StepsOf, SavingSteps
<1>6. op[r] \in Savers \/ pc[r] \notin SavingSteps BY DEF FilesInv, LifeInv
<1> QED BY <1>2, <1>3, <1>4, <1>5, <1>6

-----------------------------------------------------------------------------
\* The singletons.  An instance that somebody works with is the one that is registered, of
\* the classes that register theirs before its init(), and is ready, of the others; and what
\* is registered of those is ready, too.
GotInv ==
  \A p \in Requests : \A x \in got[p] : IF RegistersFirst(x.kind) THEN registered[x.kind] = x.by ELSE x \in ready
ReadyInv ==
  \A k \in Kinds : ~RegistersFirst(k) /\ registered[k] # NoOne => Made(k, registered[k]) \in ready

\* Whoever initialises an instance of the first ones has registered it, or another one has.
UnderWayInv ==
  \A r \in Requests :
    /\ pc[r] \in {"chain", "initChain"} /\ op[r] \in Connectors /\ RegistersFirst(op[r]) => registered[op[r]] # NoOne
    /\ pc[r] = "initChain" /\ ChainKind(r) = "solana" => registered["solana"] # NoOne

\* The node of an Ethereum that is registered is final.
NodeInv ==
  /\ \A r \in Requests : got[r] # {} \/ kept[r] # "none" => pc[r] = "done"
  /\ registered["ethereum"] # NoOne => pc[registered["ethereum"]] = "done"
  /\ \A r \in Requests : \A x \in got[r] : x.kind = "ethereum" => pc[x.by] = "done"

InstancesInv == InstancesTypeOK /\ GotInv /\ ReadyInv /\ UnderWayInv /\ NodeInv /\ KeepsTheNode /\ OneLoad

LEMMA KindsAre ==
  /\ {"solana", "uniswap", "pancakeswap", "ethereum", "raydium"} \subseteq Kinds /\ Chains \subseteq Kinds
  /\ RegistersFirst("solana") /\ ~RegistersFirst("ethereum") /\ ~RegistersFirst("raydium")
  /\ \A k : RegistersFirst(k) => k \in Kinds
  /\ Connectors \subseteq Kinds /\ Connectors \cap Chains = {}
  /\ \A r : ChainKind(r) \in Chains
  /\ \A r : op[r] \in {"raydium", "solana"} => ChainKind(r) = "solana"
  /\ \A r : op[r] \in {"uniswap", "pancakeswap", "ethereum"} => ChainKind(r) = "ethereum"
BY DEF Kinds, RegistersFirst, Connectors, OnSolana, OnEthereum, Chains, ChainKind

\* A step of another kind.
LEMMA OtherStepsKeepInstances ==
  ASSUME FilesInv, InstancesInv, UNCHANGED <<op, instanceVars>>,
         \A q \in Requests : op[q] \in InstanceOps => pc'[q] = pc[q],
         \A q \in Requests : pc[q] = "done" => pc'[q] = "done",
         \A q \in Requests : op[q] \notin InstanceOps => pc[q] \notin InstanceSteps /\ pc'[q] \notin InstanceSteps
  PROVE  InstancesInv'
<1>1. UNCHANGED <<registered, ready, got, dlmm, provider, node, kept>> BY DEF instanceVars, nodeVars
<1>2. InstancesTypeOK' BY <1>1 DEF InstancesInv, InstancesTypeOK
<1>3. GotInv' /\ ReadyInv' BY <1>1 DEF InstancesInv, GotInv, ReadyInv, Made
<1>4. \A q \in Requests, s \in InstanceSteps : pc'[q] = s <=> pc[q] = s OBVIOUS
<1>5. UnderWayInv' BY <1>1, <1>4 DEF InstancesInv, UnderWayInv, InstanceSteps, ChainKind
<1>6. NodeInv'
  <2>1. registered["ethereum"] # NoOne => registered["ethereum"] \in Requests BY KindsAre DEF InstancesInv, InstancesTypeOK
  <2>2. \A r \in Requests : \A x \in got[r] : x.by \in Requests BY DEF InstancesInv, InstancesTypeOK, Instance
  <2> QED BY <2>1, <2>2, <1>1 DEF InstancesInv, NodeInv
<1>7. KeepsTheNode' BY <1>1 DEF InstancesInv, KeepsTheNode
<1>8. OneLoad' BY <1>1, <1>4 DEF InstancesInv, OneLoad, InstanceSteps
<1> QED BY <1>2, <1>3, <1>5, <1>6, <1>7, <1>8 DEF InstancesInv

\* What a request does that gets an instance.
GoodInstances(instances) ==
  \A x \in instances : /\ x \in Instance
                       /\ IF RegistersFirst(x.kind) THEN registered'[x.kind] = x.by ELSE x \in ready'
                       /\ x.kind = "ethereum" => pc'[x.by] = "done"
InstanceMove(r) ==
  /\ UNCHANGED <<op, dlmm>> /\ provider' \in Providers
  /\ pc[r] \in {"start", "chain", "initChain", "initConnector"}
  /\ \E s \in {"chain", "initChain", "initConnector", "done"} : pc' = [pc EXCEPT ![r] = s]
  /\ registered' \in [Kinds -> Requests \cup {NoOne}]
  /\ \A k \in Kinds : registered'[k] # registered[k] =>
       /\ registered'[k] = r
       /\ IF RegistersFirst(k) THEN registered[k] = NoOne ELSE Made(k, r) \in ready'
       /\ k = "ethereum" => pc'[r] = "done"
  /\ ready \subseteq ready' /\ ready' \subseteq Instance
  /\ got' = got \/ (pc'[r] = "done" /\ \E i : GoodInstances(i) /\ got' = [got EXCEPT ![r] = i])
  /\ node' \in [Chains -> [Requests -> Nodes \cup {"none"}]]
  /\ \A q \in Requests \ {r} : node'["ethereum"][q] = node["ethereum"][q]
  /\ kept' \in [Requests -> Nodes \cup {"none"}]
  /\ \A q \in Requests \ {r} : kept'[q] = kept[q]
  /\ kept'[r] # kept[r] =>
       /\ pc'[r] = "done"
       /\ op[r] \in {"uniswap", "pancakeswap"} =>
            \E x \in got'[r] : x.kind = "ethereum" /\ kept'[r] = node'["ethereum"][x.by]
  /\ pc'[r] \in {"chain", "initChain"} /\ op[r] \in Connectors /\ RegistersFirst(op[r]) => registered'[op[r]] # NoOne
  /\ pc'[r] = "initChain" /\ ChainKind(r) = "solana" => registered'["solana"] # NoOne

LEMMA InstanceMoveKeeps ==
  ASSUME FilesTyped, InstancesInv, NEW r \in Requests, InstanceMove(r)
  PROVE  InstancesInv'
<1>1. UNCHANGED <<op, dlmm>> BY DEF InstanceMove
<1>2. PICK s \in {"chain", "initChain", "initConnector", "done"} : pc' = [pc EXCEPT ![r] = s] BY DEF InstanceMove
<1>3. pc'[r] = s /\ \A q \in Requests : q # r => pc'[q] = pc[q] BY <1>2 DEF FilesTyped
<1>4. pc[r] \notin {"done", "loading", "awaiting"} /\ s \notin {"loading", "awaiting"} BY DEF InstanceMove
<1>5. got[r] = {} /\ kept[r] = "none" BY <1>4 DEF InstancesInv, NodeInv
<1>6. InstancesTypeOK BY DEF InstancesInv
<1>7. InstancesTypeOK'
  <2>1. got' \in [Requests -> SUBSET Instance] BY <1>6 DEF InstanceMove, GoodInstances, InstancesTypeOK
  <2> QED BY <2>1, <1>1, <1>6 DEF InstanceMove, InstancesTypeOK
<1>8. \A q \in Requests : got'[q] = got[q] \/ (q = r /\ s = "done" /\ GoodInstances(got'[q]))
  BY <1>3, <1>6 DEF InstanceMove, InstancesTypeOK
<1>9. \A k \in Kinds : registered'[k] # registered[k] =>
       /\ registered'[k] = r
       /\ IF RegistersFirst(k) THEN registered[k] = NoOne ELSE Made(k, r) \in ready'
       /\ k = "ethereum" => pc'[r] = "done"
  BY DEF InstanceMove
<1>10. ready \subseteq ready' BY DEF InstanceMove
<1>11. \A q \in Requests : \A x \in got[q] : x.kind \in Kinds /\ x.by \in Requests
  BY <1>6 DEF InstancesTypeOK, Instance
<1>12. GotInv'
  <2> SUFFICES ASSUME NEW p \in Requests, NEW x \in got'[p]
               PROVE  IF RegistersFirst(x.kind) THEN registered'[x.kind] = x.by ELSE x \in ready'
    BY DEF GotInv
  <2>1. CASE got'[p] = got[p]
    <3>1. IF RegistersFirst(x.kind) THEN registered[x.kind] = x.by ELSE x \in ready
      BY <2>1 DEF InstancesInv, GotInv
    <3> QED BY <2>1, <3>1, <1>9, <1>10, <1>11, InstancesAssumption
  <2>2. CASE GoodInstances(got'[p]) BY <2>2 DEF GoodInstances
  <2> QED BY <2>1, <2>2, <1>8
<1>13. ReadyInv'
  <2>1. \A k \in Kinds : ~RegistersFirst(k) /\ registered[k] # NoOne => Made(k, registered[k]) \in ready
    BY DEF InstancesInv, ReadyInv
  <2> QED BY <2>1, <1>9, <1>10 DEF ReadyInv, Made
<1>14. \A k \in Kinds : registered[k] # NoOne => registered'[k] # NoOne BY <1>9, InstancesAssumption
<1>15. UnderWayInv'
  <2> SUFFICES ASSUME NEW q \in Requests
               PROVE  /\ pc'[q] \in {"chain", "initChain"} /\ op[q] \in Connectors /\ RegistersFirst(op[q])
                           => registered'[op[q]] # NoOne
                      /\ pc'[q] = "initChain" /\ ChainKind(q) = "solana" => registered'["solana"] # NoOne
    BY <1>1 DEF UnderWayInv, ChainKind
  <2>1. CASE q = r BY <2>1, <1>1 DEF InstanceMove, ChainKind
  <2>2. CASE q # r BY <2>2, <1>3, <1>14, KindsAre DEF InstancesInv, UnderWayInv
  <2> QED BY <2>1, <2>2
<1>16. \A q \in Requests : pc[q] = "done" => pc'[q] = "done" BY <1>3, <1>4
<1>17. NodeInv'
  <2>1. \A q \in Requests : got'[q] # {} \/ kept'[q] # "none" => pc'[q] = "done"
    <3>1. \A q \in Requests : kept'[q] # kept[q] => q = r /\ pc'[q] = "done" BY DEF InstanceMove
    <3>2. \A q \in Requests : got[q] # {} \/ kept[q] # "none" => pc[q] = "done" BY DEF InstancesInv, NodeInv
    <3> QED BY <3>1, <3>2, <1>3, <1>8, <1>16
  <2>2. registered'["ethereum"] # NoOne => pc'[registered'["ethereum"]] = "done"
    <3>1. registered["ethereum"] # NoOne => registered["ethereum"] \in Requests BY <1>6, KindsAre DEF InstancesTypeOK
    <3> QED BY <3>1, <1>9, <1>16, KindsAre DEF InstancesInv, NodeInv
  <2>3. \A q \in Requests : \A x \in got'[q] : x.kind = "ethereum" => pc'[x.by] = "done"
    BY <1>8, <1>11, <1>16 DEF GoodInstances, InstancesInv, NodeInv
  <2> QED BY <2>1, <2>2, <2>3 DEF NodeInv
<1>18. KeepsTheNode'
  <2> SUFFICES ASSUME NEW q \in Requests, op[q] \in {"uniswap", "pancakeswap"}, kept'[q] # "none"
               PROVE  \E x \in got'[q] : x.kind = "ethereum" /\ kept'[q] = node'["ethereum"][x.by]
    BY <1>1 DEF KeepsTheNode
  <2>1. CASE q = r BY <2>1, <1>5 DEF InstanceMove
  <2>2. CASE q # r
    <3>1. kept'[q] = kept[q] /\ got'[q] = got[q] BY <2>2, <1>8 DEF InstanceMove
    <3>2. PICK x \in got[q] : x.kind = "ethereum" /\ kept[q] = node["ethereum"][x.by]
      BY <3>1 DEF InstancesInv, KeepsTheNode
    <3>3. x.by # r BY <3>2, <1>4 DEF InstancesInv, NodeInv
    <3>4. node'["ethereum"][x.by] = node["ethereum"][x.by] BY <3>3, <1>11 DEF InstanceMove
    <3> QED BY <3>1, <3>2, <3>4
  <2> QED BY <2>1, <2>2
<1>19. OneLoad'
  <2>1. \A q \in Requests, x \in {"loading", "awaiting"} : pc'[q] = x <=> pc[q] = x BY <1>3, <1>4
  <2> QED BY <2>1, <1>1 DEF InstancesInv, OneLoad
<1> QED BY <1>7, <1>12, <1>13, <1>15, <1>17, <1>18, <1>19 DEF InstancesInv

\* Of a connector's init() with the instances there are by then.
LEMMA GoesOnIsSo ==
  ASSUME FilesTyped, InstancesInv, NEW r \in Requests, op[r] \in Connectors, pc[r] \in {"chain", "initChain"},
         NEW map, NEW done, NEW nodes, GoesOn(r, map, done, nodes),
         UNCHANGED <<op, provider>>, node' = nodes,
         nodes \in [Chains -> [Requests -> Nodes \cup {"none"}]],
         \A q \in Requests \ {r} : nodes["ethereum"][q] = node["ethereum"][q],
         map \in [Kinds -> Requests \cup {NoOne}],
         \A k \in Kinds : map[k] # registered[k] => /\ map[k] = r /\ ~RegistersFirst(k) /\ Made(k, r) \in done
                                                    /\ k = "ethereum" => op[r] # "raydium",
         ready \subseteq done, done \subseteq Instance,
         map[ChainKind(r)] # NoOne, ~RegistersFirst(ChainKind(r)) => Made(ChainKind(r), map[ChainKind(r)]) \in done,
         map["ethereum"] \in {NoOne, r} \/ pc[map["ethereum"]] = "done"
  PROVE  InstanceMove(r)
<1> DEFINE k == op[r]
           c == ChainKind(r)
           all == IF RegistersFirst(k) THEN map ELSE [map EXCEPT ![k] = r]
<1>1. k \in Kinds /\ c \in Kinds /\ k # c /\ c \in Chains /\ k # "ethereum" /\ k # "solana"
  BY KindsAre DEF Chains
<1>2. RegistersFirst(k) => map[k] # NoOne
  <2>1. RegistersFirst(k) => registered[k] # NoOne BY DEF InstancesInv, UnderWayInv
  <2> QED BY <2>1, <1>1
<1>3. InstancesTypeOK BY DEF InstancesInv
<1>4. all \in [Kinds -> Requests \cup {NoOne}] /\ all[c] = map[c] /\ all[k] # NoOne
      /\ (~RegistersFirst(k) => all[k] = r) /\ \A j \in Kinds : j # k => all[j] = map[j]
  BY <1>1, <1>2, InstancesAssumption
<1>5. CASE GetsNone(r) /\ registered' = map /\ ready' = done /\ UNCHANGED kept
  <2>1. pc' = [pc EXCEPT ![r] = "done"] /\ pc'[r] = "done" /\ UNCHANGED <<got, dlmm>>
    BY <1>5 DEF GetsNone, Return, Answer, FilesTyped
  <2> QED BY <2>1, <1>3, <1>5 DEF InstanceMove, InstancesTypeOK
<1>6. CASE k = "raydium"
  <2>1. Moves(r, "initConnector") /\ registered' = map /\ ready' = done /\ UNCHANGED kept BY <1>6 DEF GoesOn
  <2>2. pc' = [pc EXCEPT ![r] = "initConnector"] /\ pc'[r] = "initConnector" /\ UNCHANGED <<got, dlmm>>
    BY <2>1 DEF Moves, GoTo, FilesTyped
  <2> QED BY <2>1, <2>2, <1>3, <1>6 DEF InstanceMove, InstancesTypeOK
<1>7. CASE /\ Ends(r, {Of(k, all), Of(c, all)})
           /\ registered' = all /\ ready' = done \cup {Made(k, r)}
           /\ kept' = IF k \in KeepsNode THEN [kept EXCEPT ![r] = nodes[c][map[c]]] ELSE kept
  <2> HIDE DEF all
  <2>1. pc' = [pc EXCEPT ![r] = "done"] /\ pc'[r] = "done" /\ got' = [got EXCEPT ![r] = {Of(k, all), Of(c, all)}]
        /\ UNCHANGED dlmm
    BY <1>7 DEF Ends, Return, Answer, FilesTyped
  <2>2. Of(k, all) \in Instance /\ Of(c, all) \in Instance /\ Made(k, r) \in Instance
    BY <1>1, <1>4 DEF Of, Made, Instance
  <2>3. IF RegistersFirst(k) THEN registered'[k] = all[k] ELSE Of(k, all) \in ready'
    BY <1>1, <1>4, <1>7 DEF Of, Made
  <2>4. IF RegistersFirst(c) THEN registered'[c] = all[c] ELSE Of(c, all) \in ready'
    BY <1>1, <1>4, <1>7 DEF Of, Made
  <2>5. c = "ethereum" => pc'[all[c]] = "done"
    <3>1. all[c] \in Requests BY <1>1, <1>4
    <3> QED BY <3>1, <2>1, <1>4 DEF FilesTyped
  <2>6. GoodInstances({Of(k, all), Of(c, all)})
    BY <1>1, <2>2, <2>3, <2>4, <2>5 DEF GoodInstances, Of
  <2>7. nodes[c][map[c]] \in Nodes \cup {"none"}
    <3>1. map[c] \in Requests BY <1>1
    <3> QED BY <3>1, <1>1
  <2>8. kept' \in [Requests -> Nodes \cup {"none"}] /\ \A q \in Requests \ {r} : kept'[q] = kept[q]
    BY <2>7, <1>3, <1>7 DEF InstancesTypeOK
  <2>9. kept'[r] # kept[r] => kept'[r] = nodes[c][map[c]] BY <1>3, <1>7 DEF InstancesTypeOK
  <2>10. Of(c, all) \in got'[r] /\ Of(c, all).kind = c /\ Of(c, all).by = map[c]
    BY <2>1, <1>3, <1>4 DEF InstancesTypeOK, Of
  <2>11. op[r] \in {"uniswap", "pancakeswap"} => c = "ethereum" BY KindsAre
  <2>12. \A j \in Kinds : registered'[j] # registered[j] =>
           /\ registered'[j] = r
           /\ IF RegistersFirst(j) THEN registered[j] = NoOne ELSE Made(j, r) \in ready'
    <3>1. \A j \in Kinds : j # k => registered'[j] = map[j] BY <1>4, <1>7
    <3>2. registered'[k] # registered[k] => registered'[k] = r /\ (~RegistersFirst(k) => Made(k, r) \in ready')
      BY <1>1, <1>4, <1>7 DEF all
    <3>3. RegistersFirst(k) => registered'[k] = registered[k] BY <1>1, <1>4, <1>7 DEF all
    <3> QED BY <3>1, <3>2, <3>3, <1>7
  <2>13. ready \subseteq ready' /\ ready' \subseteq Instance BY <2>2, <1>7
  <2> QED BY <2>1, <2>6, <2>8, <2>9, <2>10, <2>11, <2>12, <2>13, <1>1, <1>3, <1>4, <1>7
          DEF InstanceMove, InstancesTypeOK
<1> QED BY <1>5, <1>6, <1>7 DEF GoesOn

LEMMA GetInstanceIsSo ==
  ASSUME FilesTyped, InstancesInv, NEW r \in Requests, NEW k \in Connectors, UNCHANGED op,
         GetInstance(r, k) \/ (op[r] \in Connectors /\ pc[r] = "start" /\ GetsNone(r)
                               /\ UNCHANGED <<registered, ready, nodeVars>>)
  PROVE  InstanceMove(r)
<1>1. InstancesTypeOK BY DEF InstancesInv
<1>2. k \in Kinds /\ k # "ethereum" /\ k # "solana" BY KindsAre DEF Chains
<1>3. CASE /\ op[r] \in Connectors /\ pc[r] = "start" /\ GetsNone(r)
           /\ UNCHANGED <<registered, ready, nodeVars>>
  <2>1. pc' = [pc EXCEPT ![r] = "done"] /\ pc'[r] = "done" /\ UNCHANGED <<got, dlmm>>
    BY <1>3 DEF GetsNone, Return, Answer, FilesTyped
  <2> QED BY <2>1, <1>1, <1>3 DEF InstanceMove, InstancesTypeOK, nodeVars
<1>4. CASE GetInstance(r, k)
  <2>1. pc[r] = "start" /\ op[r] = k /\ UNCHANGED <<ready, nodeVars>> BY <1>4 DEF GetInstance, Starts
  <2>2. CASE registered[k] # NoOne
    <3>1. Ends(r, {Of(k, registered)}) /\ UNCHANGED registered BY <1>4, <2>2 DEF GetInstance
    <3>2. pc' = [pc EXCEPT ![r] = "done"] /\ pc'[r] = "done" /\ got' = [got EXCEPT ![r] = {Of(k, registered)}]
          /\ UNCHANGED dlmm
      BY <3>1 DEF Ends, Return, Answer, FilesTyped
    <3>3. Of(k, registered) \in Instance BY <1>1, <1>2, <2>2 DEF Of, Instance, InstancesTypeOK
    <3>4. ~RegistersFirst(k) => Of(k, registered) \in ready BY <1>2, <2>2 DEF InstancesInv, ReadyInv, Of, Made
    <3>5. GoodInstances({Of(k, registered)}) BY <1>2, <2>1, <3>1, <3>3, <3>4 DEF GoodInstances, Of
    <3> QED BY <2>1, <3>1, <3>2, <3>5, <1>1 DEF InstanceMove, InstancesTypeOK, nodeVars
  <2>3. CASE registered[k] = NoOne
    <3>1. registered' = First(k, r) /\ Moves(r, "chain") BY <1>4, <2>3 DEF GetInstance
    <3>2. pc' = [pc EXCEPT ![r] = "chain"] /\ pc'[r] = "chain" /\ UNCHANGED <<got, dlmm>>
      BY <3>1 DEF Moves, GoTo, FilesTyped
    <3>3. /\ registered' \in [Kinds -> Requests \cup {NoOne}]
          /\ \A j \in Kinds : registered'[j] # registered[j] => j = k /\ registered'[j] = r /\ RegistersFirst(k)
          /\ RegistersFirst(k) => registered'[k] = r
      BY <3>1, <1>1, <1>2 DEF First, InstancesTypeOK
    <3> QED BY <2>1, <2>3, <3>2, <3>3, <1>1, <1>2, InstancesAssumption DEF InstanceMove, InstancesTypeOK, nodeVars
  <2> QED BY <2>2, <2>3
<1> QED BY <1>3, <1>4

LEMMA NodesOfChains ==
  ASSUME InstancesTypeOK, NEW k \in Chains, NEW r \in Requests
  PROVE  FirstNodes(k) \subseteq Nodes /\ Discovered(node[k][r]) \subseteq Nodes \cup {"none"}
<1>1. FirstNodes(k) \subseteq Nodes
  BY DEF FirstNodes, SolanaNodes, EthereumNodes, HeliusNode, InfuraNode, Nodes
<1>2. node[k][r] \in Nodes \cup {"none"} BY DEF InstancesTypeOK
<1>3. Discovered(node[k][r]) \subseteq Nodes \cup {"none"} BY <1>2 DEF Discovered, ChainstackTells, Nodes
<1> QED BY <1>1, <1>3

LEMMA GetChainIsSo ==
  ASSUME FilesTyped, InstancesInv, NEW r \in Requests, NEW k \in Chains, UNCHANGED op, GetChain(r, k)
  PROVE  InstanceMove(r)
<1>1. InstancesTypeOK BY DEF InstancesInv
<1>2. k \in Kinds /\ k \in {"solana", "ethereum"} BY KindsAre DEF Chains
<1>3. ChainKind(r) = k /\ pc[r] \in {"start", "chain"} /\ UNCHANGED provider /\ (pc[r] = "start" => op[r] = k)
  BY DEF GetChain, Starts, At
<1>4. ChainKind(r)' = ChainKind(r) BY DEF ChainKind
<1>5. CASE registered[k] = NoOne
  <2>1. registered' = First(k, r) /\ Moves(r, "initChain") /\ UNCHANGED <<ready, kept>> BY <1>5 DEF GetChain
  <2>2. PICK n \in FirstNodes(k) : node' = [node EXCEPT ![k][r] = n] BY <1>5 DEF GetChain
  <2>3. pc' = [pc EXCEPT ![r] = "initChain"] /\ pc'[r] = "initChain" /\ UNCHANGED <<got, dlmm>>
    BY <2>1 DEF Moves, GoTo, FilesTyped
  <2>4. /\ registered' \in [Kinds -> Requests \cup {NoOne}]
        /\ \A j \in Kinds : registered'[j] # registered[j] => j = k /\ registered'[j] = r /\ RegistersFirst(k)
        /\ RegistersFirst(k) => registered'[k] = r
    BY <2>1, <1>1, <1>2 DEF First, InstancesTypeOK
  <2>5. /\ node' \in [Chains -> [Requests -> Nodes \cup {"none"}]]
        /\ \A q \in Requests \ {r} : node'["ethereum"][q] = node["ethereum"][q]
    <3>1. n \in Nodes BY NodesOfChains, <1>1
    <3> QED BY <3>1, <2>2, <1>1 DEF InstancesTypeOK, Chains
  <2>6. op[r] \in Connectors /\ RegistersFirst(op[r]) => registered'[op[r]] # NoOne
    <3>1. op[r] \in Connectors => pc[r] = "chain" BY <1>2, <1>3, KindsAre
    <3>2. op[r] \in Connectors /\ RegistersFirst(op[r]) => registered[op[r]] # NoOne
      BY <3>1 DEF InstancesInv, UnderWayInv
    <3> QED BY <3>2, <2>4, KindsAre, InstancesAssumption
  <2>7. ChainKind(r) = "solana" => registered'["solana"] # NoOne
    BY <2>4, <1>3, KindsAre, InstancesAssumption
  <2>8. RegistersFirst(k) => k # "ethereum" BY KindsAre
  <2> QED BY <2>1, <2>3, <2>4, <2>5, <2>6, <2>7, <2>8, <1>1, <1>3, <1>5 DEF InstanceMove, InstancesTypeOK
<1>6. CASE registered[k] # NoOne
  <2>1. UNCHANGED node BY <1>6 DEF GetChain
  <2>2. registered[k] \in Requests BY <1>1, <1>2, <1>6 DEF InstancesTypeOK
  <2>3. ~RegistersFirst(k) => Made(k, registered[k]) \in ready BY <1>2, <1>6 DEF InstancesInv, ReadyInv
  <2>4. CASE op[r] \in Connectors
    <3>1. GoesOn(r, registered, ready, node) BY <1>6, <2>4 DEF GetChain
    <3>2. pc[r] = "chain" BY <1>2, <1>3, <2>4, KindsAre
    <3>3. registered["ethereum"] \in {NoOne, r} \/ pc[registered["ethereum"]] = "done" BY DEF InstancesInv, NodeInv
    <3>4. /\ node \in [Chains -> [Requests -> Nodes \cup {"none"}]] /\ registered \in [Kinds -> Requests \cup {NoOne}]
          /\ ready \subseteq Instance
      BY <1>1 DEF InstancesTypeOK
    <3> QED BY <3>1, <3>2, <3>3, <3>4, <2>1, <2>3, <2>4, <1>3, <1>6, GoesOnIsSo
  <2>5. CASE op[r] \notin Connectors
    <3>1. Ends(r, {Of(k, registered)}) /\ UNCHANGED <<registered, ready, kept>> BY <1>6, <2>5 DEF GetChain
    <3>2. pc' = [pc EXCEPT ![r] = "done"] /\ pc'[r] = "done" /\ got' = [got EXCEPT ![r] = {Of(k, registered)}]
          /\ UNCHANGED dlmm
      BY <3>1 DEF Ends, Return, Answer, FilesTyped
    <3>3. Of(k, registered) \in Instance BY <1>2, <2>2 DEF Of, Instance
    <3>4. k = "ethereum" => pc'[registered[k]] = "done"
      BY <3>2, <2>2, <1>6 DEF InstancesInv, NodeInv, FilesTyped
    <3>5. GoodInstances({Of(k, registered)}) BY <3>1, <3>3, <3>4, <2>3 DEF GoodInstances, Of, Made
    <3> QED BY <3>1, <3>2, <3>5, <2>1, <1>1, <1>3 DEF InstanceMove, InstancesTypeOK
  <2> QED BY <2>4, <2>5
<1> QED BY <1>5, <1>6

LEMMA InitChainIsSo ==
  ASSUME FilesTyped, InstancesInv, NEW r \in Requests, NEW k \in Chains, UNCHANGED op, InitChain(r, k)
  PROVE  InstanceMove(r)
<1> DEFINE map == AfterInit(k, r)
           done == ready \cup {Made(k, r)}
<1>1. InstancesTypeOK BY DEF InstancesInv
<1>2. k \in Kinds /\ k \in {"solana", "ethereum"} BY KindsAre DEF Chains
<1>3. ChainKind(r) = k /\ pc[r] = "initChain" /\ UNCHANGED provider BY DEF InitChain, At
<1>4. PICK n \in Discovered(node[k][r]) : node' = [node EXCEPT ![k][r] = n] BY DEF InitChain
<1>5. /\ node' \in [Chains -> [Requests -> Nodes \cup {"none"}]]
      /\ \A q \in Requests \ {r} : node'["ethereum"][q] = node["ethereum"][q]
  <2>1. n \in Nodes \cup {"none"} BY NodesOfChains, <1>1
  <2> QED BY <2>1, <1>1, <1>4 DEF InstancesTypeOK, Chains
<1>6. Made(k, r) \in Instance /\ done \subseteq Instance BY <1>1, <1>2 DEF Made, Instance, InstancesTypeOK
<1>7. /\ map \in [Kinds -> Requests \cup {NoOne}]
      /\ \A j \in Kinds : map[j] # registered[j] => j = k /\ map[j] = r /\ ~RegistersFirst(j)
      /\ ~RegistersFirst(k) => map[k] = r
      /\ RegistersFirst(k) => map = registered
  BY <1>1, <1>2 DEF AfterInit, InstancesTypeOK
<1>8. map[k] # NoOne
  <2>1. CASE k = "solana" BY <2>1, <1>3, <1>7, KindsAre DEF InstancesInv, UnderWayInv
  <2>2. CASE k = "ethereum" BY <2>2, <1>7, KindsAre, InstancesAssumption
  <2> QED BY <2>1, <2>2, <1>2
<1>9. Made(k, r) \in done OBVIOUS
<1>10. map["ethereum"] \in {NoOne, r} \/ pc[map["ethereum"]] = "done"
  <2>1. map["ethereum"] = registered["ethereum"] \/ map["ethereum"] = r BY <1>7, KindsAre
  <2> QED BY <2>1 DEF InstancesInv, NodeInv
<1>11. op[r] \in Connectors => GoesOn(r, map, done, node') BY DEF InitChain
<1>12. op[r] \notin Connectors => Ends(r, {Of(k, map)}) /\ registered' = map /\ ready' = done /\ UNCHANGED kept
  BY DEF InitChain
<1>13. ready \subseteq done OBVIOUS
<1>14. ~RegistersFirst(k) => Made(k, map[k]) \in done BY <1>7, <1>9
<1> HIDE DEF map, done
<1>15. CASE op[r] \in Connectors
  <2>1. op[r] = "raydium" => k = "solana" BY <1>3, KindsAre
  <2>2. \A j \in Kinds : map[j] # registered[j] => /\ map[j] = r /\ ~RegistersFirst(j) /\ Made(j, r) \in done
                                                   /\ j = "ethereum" => op[r] # "raydium"
    BY <2>1, <1>7, <1>9
  <2> QED BY <2>2, <1>3, <1>5, <1>6, <1>7, <1>8, <1>10, <1>11, <1>13, <1>14, <1>15, GoesOnIsSo
<1>16. CASE op[r] \notin Connectors
  <2>1. pc' = [pc EXCEPT ![r] = "done"] /\ pc'[r] = "done" /\ got' = [got EXCEPT ![r] = {Of(k, map)}] /\ UNCHANGED dlmm
    BY <1>12, <1>16 DEF Ends, Return, Answer, FilesTyped
  <2>2. map[k] \in Requests BY <1>2, <1>7, <1>8
  <2>3. Of(k, map) \in Instance BY <1>2, <2>2 DEF Of, Instance
  <2>4. k = "ethereum" => pc'[map[k]] = "done" BY <2>1, <2>2, <1>7, KindsAre
  <2>5. GoodInstances({Of(k, map)}) BY <2>3, <2>4, <1>12, <1>14, <1>16 DEF GoodInstances, Of, Made
  <2> QED BY <2>1, <2>5, <1>1, <1>3, <1>5, <1>6, <1>7, <1>9, <1>12, <1>13, <1>16 DEF InstanceMove, InstancesTypeOK
<1> QED BY <1>15, <1>16

LEMMA InitRaydiumIsSo ==
  ASSUME FilesTyped, InstancesInv, NEW r \in Requests, UNCHANGED op, InitRaydium(r)
  PROVE  InstanceMove(r)
<1>1. InstancesTypeOK BY DEF InstancesInv
<1>2. pc[r] = "initConnector" /\ UNCHANGED nodeVars BY DEF InitRaydium, At
<1>3. "raydium" \in Kinds /\ ~RegistersFirst("raydium") BY KindsAre
<1>4. CASE GetsNone(r) /\ UNCHANGED <<registered, ready>>
  <2>1. pc' = [pc EXCEPT ![r] = "done"] /\ pc'[r] = "done" /\ UNCHANGED <<got, dlmm>>
    BY <1>4 DEF GetsNone, Return, Answer, FilesTyped
  <2> QED BY <2>1, <1>1, <1>2, <1>4 DEF InstanceMove, InstancesTypeOK, nodeVars
<1>5. CASE /\ Ends(r, {Of("raydium", AfterInit("raydium", r))})
           /\ registered' = AfterInit("raydium", r)
           /\ ready' = ready \cup {Made("raydium", r)}
  <2>1. registered' = [registered EXCEPT !["raydium"] = r] BY <1>3, <1>5 DEF AfterInit
  <2>2. AfterInit("raydium", r)["raydium"] = r BY <1>1, <1>3 DEF AfterInit, InstancesTypeOK
  <2>3. Of("raydium", AfterInit("raydium", r)) = Made("raydium", r) BY <2>2 DEF Of, Made
  <2>4. /\ pc' = [pc EXCEPT ![r] = "done"] /\ pc'[r] = "done" /\ got' = [got EXCEPT ![r] = {Made("raydium", r)}]
        /\ UNCHANGED dlmm
    BY <1>5, <2>3 DEF Ends, Return, Answer, FilesTyped
  <2>5. Made("raydium", r) \in Instance BY <1>3 DEF Made, Instance
  <2>6. GoodInstances({Made("raydium", r)}) BY <2>5, <1>3, <1>5 DEF GoodInstances, Made
  <2>7. /\ registered' \in [Kinds -> Requests \cup {NoOne}]
        /\ \A j \in Kinds : registered'[j] # registered[j] => j = "raydium" /\ registered'[j] = r
    BY <2>1, <1>1, <1>3 DEF InstancesTypeOK
  <2> QED BY <2>4, <2>5, <2>6, <2>7, <1>1, <1>2, <1>3, <1>5 DEF InstanceMove, InstancesTypeOK, nodeVars
<1> QED BY <1>4, <1>5 DEF InitRaydium

\* Meteora's pools.
LEMMA DlmmKeeps ==
  ASSUME FilesTyped, InstancesInv, NEW r \in Requests, UNCHANGED op, GetDlmmPool(r) \/ LoadDlmmPool(r)
  PROVE  InstancesInv'
<1>1. UNCHANGED <<registered, ready, got, provider, node, kept>> /\ dlmm' \in {"none", "loading", "loaded"}
  BY DEF GetDlmmPool, LoadDlmmPool, nodeVars, Return, GoTo, InstancesInv, InstancesTypeOK
<1>2. InstancesTypeOK' BY <1>1 DEF InstancesInv, InstancesTypeOK
<1>3. GotInv' /\ ReadyInv' BY <1>1 DEF InstancesInv, GotInv, ReadyInv, Made
<1>4. KeepsTheNode' BY <1>1 DEF InstancesInv, KeepsTheNode
<1>5. \A q \in Requests : /\ pc[q] = "done" => pc'[q] = "done"
                          /\ pc'[q] \in {"chain", "initChain"} => pc'[q] = pc[q]
  <2>1. CASE GetDlmmPool(r)
    <3>1. pc[r] = "start" BY <2>1 DEF GetDlmmPool, Starts, At
    <3>2. \E s \in {"loading", "awaiting", "done"} : pc' = [pc EXCEPT ![r] = s]
      BY <2>1 DEF GetDlmmPool, Return, Answer, GoTo
    <3> QED BY <3>1, <3>2 DEF FilesTyped
  <2>2. CASE LoadDlmmPool(r)
    <3>1. pc' = [q \in Requests |-> IF q = r \/ pc[q] = "awaiting" THEN "done" ELSE pc[q]]
      BY <2>2 DEF LoadDlmmPool
    <3> QED BY <3>1
  <2> QED BY <2>1, <2>2
<1>6. UnderWayInv' BY <1>1, <1>5 DEF InstancesInv, UnderWayInv, ChainKind
<1>7. NodeInv'
  <2>1. registered["ethereum"] # NoOne => registered["ethereum"] \in Requests BY KindsAre DEF InstancesInv, InstancesTypeOK
  <2>2. \A q \in Requests : \A x \in got[q] : x.by \in Requests BY DEF InstancesInv, InstancesTypeOK, Instance
  <2> QED BY <2>1, <2>2, <1>1, <1>5 DEF InstancesInv, NodeInv
<1>8. OneLoad'
  <2>1. /\ dlmm = "loading" <=> \E q \in Requests : pc[q] = "loading"
        /\ \A p, q \in Requests : pc[p] = "loading" /\ pc[q] = "loading" => p = q
        /\ (\E q \in Requests : pc[q] = "awaiting") => \E q \in Requests : pc[q] = "loading"
    BY DEF InstancesInv, OneLoad
  <2> SUFFICES /\ dlmm' = "loading" <=> \E q \in Requests : pc'[q] = "loading"
               /\ \A p, q \in Requests : pc'[p] = "loading" /\ pc'[q] = "loading" => p = q
               /\ (\E q \in Requests : pc'[q] = "awaiting") => \E q \in Requests : pc'[q] = "loading"
    BY DEF OneLoad
  <2>2. CASE GetDlmmPool(r)
    <3>1. pc[r] = "start" BY <2>2 DEF GetDlmmPool, Starts
    <3>2. \/ dlmm = "none" /\ dlmm' = "loading" /\ pc' = [pc EXCEPT ![r] = "loading"]
          \/ dlmm = "loading" /\ dlmm' = dlmm /\ pc' = [pc EXCEPT ![r] = "awaiting"]
          \/ dlmm = "loaded" /\ dlmm' = dlmm /\ pc' = [pc EXCEPT ![r] = "done"]
      BY <2>2 DEF GetDlmmPool, MustLoad, GoTo, Return, Answer
    <3> QED BY <2>1, <3>1, <3>2 DEF FilesTyped
  <2>3. CASE LoadDlmmPool(r)
    <3>1. /\ pc[r] = "loading" /\ dlmm' \in {"none", "loaded"}
          /\ pc' = [q \in Requests |-> IF q = r \/ pc[q] = "awaiting" THEN "done" ELSE pc[q]]
      BY <2>3 DEF LoadDlmmPool, At
    <3> QED BY <2>1, <3>1
  <2> QED BY <2>2, <2>3
<1> QED BY <1>2, <1>3, <1>4, <1>6, <1>7, <1>8 DEF InstancesInv

LEMMA InstanceStepKeeps ==
  ASSUME FilesTyped, InstancesInv, NEW r \in Requests, UNCHANGED op, InstanceStep(r)
  PROVE  InstancesInv'
<1>1. \A k \in Connectors : GetInstance(r, k) => InstancesInv' BY GetInstanceIsSo, InstanceMoveKeeps
<1>2. CASE GetConnector(r)
  <2>1. {"uniswap", "pancakeswap", "0x", "raydium", "meteora", "orca", "pancakeswap-sol", "jupiter", "titan", "dflow", "okx"}
          \subseteq Connectors
    BY DEF Connectors, OnSolana, OnEthereum
  <2>2. GetOkx(r) => InstancesInv'
    BY <2>1, <1>1, GetInstanceIsSo, InstanceMoveKeeps DEF GetOkx, Starts
  <2> QED BY <2>1, <2>2, <1>1, <1>2
      DEF GetConnector, GetUniswap, GetPancakeswap, GetZeroX, GetRaydium, GetMeteora, GetOrca, GetPancakeswapSol,
          GetJupiter, GetTitan, GetDFlow
<1>3. CASE GetSolana(r) \/ GetEthereum(r)
  BY <1>3, GetChainIsSo, InstanceMoveKeeps DEF GetSolana, GetEthereum, Chains
<1>4. CASE InitSolana(r) \/ InitEthereum(r)
  BY <1>4, InitChainIsSo, InstanceMoveKeeps DEF InitSolana, InitEthereum, Chains
<1>5. CASE InitRaydium(r) BY <1>5, InitRaydiumIsSo, InstanceMoveKeeps
<1>6. CASE GetDlmmPool(r) \/ LoadDlmmPool(r) BY <1>6, DlmmKeeps
<1> QED BY <1>2, <1>3, <1>4, <1>5, <1>6 DEF InstanceStep

\* No step of another kind touches them.
LEMMA OthersStepsOf ==
  ASSUME FilesInv, FilesInv', NEW r \in Requests, OwnStep(r)
  PROVE  /\ \A q \in Requests : q # r => pc'[q] = pc[q]
         /\ \A q \in Requests : pc[q] = "done" => pc'[q] = "done"
         /\ \A q \in Requests : op[q] \notin InstanceOps => pc[q] \notin InstanceSteps /\ pc'[q] \notin InstanceSteps
<1>1. UNCHANGED op /\ pc[r] # "done" /\ \A q \in Requests : q # r => pc'[q] = pc[q] BY OthersStay
<1>2. \A q \in Requests : op[q] \notin InstanceOps => pc[q] \notin InstanceSteps BY StepsOfFamilies
<1>3. \A q \in Requests : pc'[q] \in {"start", "done"} \cup SavingSteps \cup StepsOf(op'[q])
  BY DEF FilesInv, LifeInv
<1>4. \A q \in Requests : op[q] \notin InstanceOps => pc'[q] \notin InstanceSteps
  BY <1>1, <1>3 DEF StepsOf, SavingSteps, TokenSteps, PoolSteps, WalletSteps, InstanceSteps, FeeSteps, LedgerSteps
<1> QED BY <1>1, <1>2, <1>4

LEMMA InstancesAreInvariant == Spec => []InstancesInv
<1>1. Init => InstancesInv
  <2> SUFFICES ASSUME Init PROVE InstancesInv OBVIOUS
  <2>1. FilesInv /\ InstancesInit BY InitIsSo DEF Init, MemoryInit
  <2>2. \A q \in Requests : pc[q] = "start" BY DEF Init, ConfInit, FilesInit
  <2>3. InstancesTypeOK BY <2>1 DEF InstancesInit, InstancesTypeOK
  <2>4. \A k \in Kinds : registered[k] = NoOne BY <2>1 DEF InstancesInit
  <2>5. \A q \in Requests : got[q] = {} /\ kept[q] = "none" BY <2>1 DEF InstancesInit
  <2>6. dlmm = "none" BY <2>1 DEF InstancesInit
  <2>7. GotInv /\ ReadyInv /\ UnderWayInv /\ KeepsTheNode
    BY <2>2, <2>4, <2>5 DEF GotInv, ReadyInv, UnderWayInv, KeepsTheNode
  <2>8. NodeInv BY <2>4, <2>5, KindsAre DEF NodeInv
  <2>9. OneLoad BY <2>2, <2>6 DEF OneLoad
  <2> QED BY <2>3, <2>7, <2>8, <2>9 DEF InstancesInv
<1>2. FilesInv /\ FilesInv' /\ InstancesInv /\ [Next]_vars => InstancesInv'
  <2> SUFFICES ASSUME FilesInv, FilesInv', InstancesInv, [Next]_vars PROVE InstancesInv' OBVIOUS
  <2>1. FilesTyped BY DEF FilesInv
  <2>2. ASSUME UNCHANGED <<op, pc, instanceVars>>
        PROVE  InstancesInv'
    <3>1. UNCHANGED <<registered, ready, got, dlmm, provider, node, kept>> BY <2>2 DEF instanceVars, nodeVars
    <3> QED BY <2>2, <3>1 DEF InstancesInv, InstancesTypeOK, GotInv, ReadyInv, UnderWayInv, NodeInv, KeepsTheNode, OneLoad,
                              ChainKind, Made
  <2>3. CASE UNCHANGED vars BY <2>2, <2>3 DEF vars, requestVars
  <2>4. CASE (\E c \in Caches : Expire(c)) /\ UNCHANGED <<walletVars, tradeVars, instanceVars, ledgerVars>>
    BY <2>2, <2>4 DEF Expire, requestVars
  <2>5. CASE Restart /\ UNCHANGED <<tradeVars, instanceVars, feeVars, ledgerVars>>
    BY <2>2, <2>5 DEF Restart, requestVars
  <2>6. CASE Crash
    <3>1. CrashFiles /\ CrashInstances BY <2>6 DEF Crash
    <3>2. UNCHANGED op /\ \A q \in Requests : pc'[q] \in {"start", "done"} BY <3>1, AfterCrash
    <3>3. InstancesTypeOK' BY <3>1 DEF CrashInstances, InstancesTypeOK, InstancesInv
    <3>4. \A k \in Kinds : registered'[k] = NoOne BY <3>1 DEF CrashInstances
    <3>5. \A q \in Requests : got'[q] = {} /\ kept'[q] = "none" BY <3>1 DEF CrashInstances
    <3>6. dlmm' = "none" BY <3>1 DEF CrashInstances
    <3>7. GotInv' /\ ReadyInv' /\ UnderWayInv' /\ KeepsTheNode'
      BY <3>2, <3>4, <3>5 DEF GotInv, ReadyInv, UnderWayInv, KeepsTheNode
    <3>8. NodeInv' BY <3>4, <3>5, KindsAre DEF NodeInv
    <3>9. OneLoad' BY <3>2, <3>6 DEF OneLoad
    <3> QED BY <3>3, <3>7, <3>8, <3>9 DEF InstancesInv
  <2>7. ASSUME NEW r \in Requests, op[r] \in InstanceOps, InstanceStep(r)
        PROVE  InstancesInv'
    <3>1. UNCHANGED op
      <4>1. OwnStep(r) => UNCHANGED op BY OthersStay
      <4> QED BY <4>1, <2>7, InstanceStepsAreSo DEF LoadEnds
    <3> QED BY <3>1, <2>1, <2>7, InstanceStepKeeps
  <2>8. ASSUME NEW r \in Requests, op[r] \notin InstanceOps, OwnStep(r), UNCHANGED instanceVars
        PROVE  InstancesInv'
    <3>1. UNCHANGED op BY <2>8, OthersStay
    <3>2. \A q \in Requests : op[q] \in InstanceOps => pc'[q] = pc[q] BY <2>8, OthersStepsOf
    <3>3. \A q \in Requests : pc[q] = "done" => pc'[q] = "done" BY <2>8, OthersStepsOf
    <3>4. \A q \in Requests : op[q] \notin InstanceOps => pc[q] \notin InstanceSteps /\ pc'[q] \notin InstanceSteps
      BY <2>8, OthersStepsOf
    <3> QED BY <3>1, <3>2, <3>3, <3>4, <2>8, OtherStepsKeepInstances
  <2>9. ASSUME NEW r \in Requests,
               \/ op[r] \in TokenOps /\ TokenStep(r) /\ UNCHANGED listsOnly
               \/ op[r] \in PoolOps /\ PoolStep(r) /\ UNCHANGED listsOnly
               \/ op[r] \in WalletOps /\ WalletStep(r) /\ UNCHANGED <<sent, instanceVars, feeVars, ledgerVars>>
               \/ op[r] \in TradeOps /\ TradeStep(r) /\ UNCHANGED <<walletVars, instanceVars, feeVars, ledgerVars>>
               \/ op[r] \in FeeOps \cup RpcOps /\ FeeStep(r) /\ UNCHANGED <<walletVars, sent, instanceVars, ledgerVars>>
               \/ op[r] \in LedgerOps /\ LedgerStep(r) /\ UNCHANGED <<walletVars, sent, instanceVars, feeVars>>
        PROVE  InstancesInv'
    <3>1. OwnStep(r) BY <2>9, TokenStepsAreSo, PoolStepsAreSo, WalletStepsAreSo, TradeStepsAreSo, FeeStepsAreSo, LedgerStepsAreSo
    <3>2. op[r] \notin InstanceOps BY <2>9, FamiliesAreApart
    <3>3. UNCHANGED instanceVars BY <2>9 DEF listsOnly
    <3> QED BY <3>1, <3>2, <3>3, <2>8
  <2> QED BY <2>3, <2>4, <2>5, <2>6, <2>7, <2>9 DEF Next
<1> QED BY <1>1, <1>2, FilesAreInvariant, PTL DEF Spec

\* Overlapping first requests get one instance, or one that is ready; the contracts of an EVM
\* connector are on the node that its chain is on; and a pool of Meteora is loaded by one
\* request at a time: for any number of requests, crashes and fallible initialisations.
THEOREM FirstRequestsAreSound == Spec => []InstancesAreSound
<1>1. InstancesInv => InstancesAreSound
  <2> SUFFICES ASSUME InstancesInv PROVE SingleInstance /\ ReadyInstance BY DEF InstancesAreSound, InstancesInv
  <2>1. \A p \in Requests : \A x \in got[p] : x = [kind |-> x.kind, by |-> x.by]
    BY DEF InstancesInv, InstancesTypeOK, Instance
  <2>2. SingleInstance BY <2>1 DEF InstancesInv, GotInv, RegistersFirst, SingleInstance
  <2>3. ReadyInstance BY DEF InstancesInv, GotInv, RegistersFirst, ReadyInstance
  <2> QED BY <2>2, <2>3
<1> QED BY <1>1, InstancesAreInvariant, PTL

-----------------------------------------------------------------------------
\* The fees.  What is cached is what the chain accepts; and the attempts of a call are counted.
Sound(c, e) ==
  /\ e \in Estimate
  /\ c = "gas" => e.kind \in {"none", "eip1559", "legacy"} /\ (e.kind = "eip1559" => e.tip <= e.fee)
  /\ c = "priority" => e.kind \in {"none", "priority"} /\ (e.kind = "priority" => e.fee \in MinFee..MaxFee)

FeesInv ==
  /\ gasConfig \in GasConfigs
  /\ estimate \in [Caches -> Estimate] /\ \A c \in Caches : Sound(c, estimate[c])
  /\ used \in [Requests -> Estimate]
  /\ executed \in [Requests -> Nat]
  /\ \A r \in Requests : IF op[r] \in RpcOps THEN executed[r] <= MaxAttempts(op[r]) ELSE executed[r] = 0
  /\ \A r \in Requests : op[r] \in RpcOps /\ pc[r] \in {"start", "calls", "sleeps"} => executed[r] < MaxAttempts(op[r])

\* What a request does that needs a fee, or calls.
FeeMove(r) ==
  /\ UNCHANGED <<op, arg, gasConfig>>
  /\ \A q \in Requests : q # r => pc'[q] = pc[q]
  /\ estimate' = estimate \/ \E c \in Caches, e \in Estimate : Sound(c, e) /\ estimate' = [estimate EXCEPT ![c] = e]
  /\ used' = used \/ \E e \in Estimate : e.fresh /\ Accepted(r, e) /\ used' = [used EXCEPT ![r] = e]
  /\ \/ UNCHANGED executed /\ (pc'[r] \in {"start", "calls", "sleeps"} => pc[r] \in {"start", "calls", "sleeps"})
     \/ /\ pc[r] = "calls" /\ op[r] \in RpcOps
        /\ executed' = [executed EXCEPT ![r] = @ + 1]
        /\ pc'[r] \in {"start", "calls", "sleeps"} => executed'[r] < MaxAttempts(op[r])

LEMMA AttemptsAreFew ==
  ASSUME NEW o
  PROVE  MaxAttempts(o) \in Nat /\ MaxAttempts(o) > 0 /\ MaxAttempts(o) <= ReadRetries + 1
BY FeesAssumption DEF MaxAttempts

LEMMA FeeMoveKeeps ==
  ASSUME FilesTyped, FeesInv, NEW r \in Requests, FeeMove(r)
  PROVE  FeesInv'
<1>1. UNCHANGED <<op, arg, gasConfig>> BY DEF FeeMove
<1>2. gasConfig' \in GasConfigs /\ used' \in [Requests -> Estimate] BY <1>1 DEF FeeMove, FeesInv
<1>3. estimate' \in [Caches -> Estimate] /\ \A c \in Caches : Sound(c, estimate'[c])
  BY DEF FeeMove, FeesInv
<1>4. \A c, e : Sound(c, e)' <=> Sound(c, e) BY DEF Sound
<1>5. MaxAttempts(op[r]) \in Nat BY AttemptsAreFew
<1>6. executed' \in [Requests -> Nat] BY DEF FeeMove, FeesInv
<1>7. \A q \in Requests : q # r => executed'[q] = executed[q] /\ pc'[q] = pc[q] BY DEF FeeMove, FeesInv
<1>8. /\ IF op[r] \in RpcOps THEN executed'[r] <= MaxAttempts(op[r]) ELSE executed'[r] = 0
      /\ op[r] \in RpcOps /\ pc'[r] \in {"start", "calls", "sleeps"} => executed'[r] < MaxAttempts(op[r])
  <2>1. CASE executed' = executed BY <2>1, <1>5 DEF FeeMove, FeesInv
  <2>2. CASE executed' # executed
    <3>1. executed[r] \in Nat /\ executed'[r] = executed[r] + 1 /\ op[r] \in RpcOps /\ pc[r] = "calls"
      BY <2>2 DEF FeeMove, FeesInv
    <3>2. executed[r] < MaxAttempts(op[r]) BY <3>1 DEF FeesInv
    <3>3. pc'[r] \in {"start", "calls", "sleeps"} => executed'[r] < MaxAttempts(op[r]) BY <2>2 DEF FeeMove
    <3> QED BY <3>1, <3>2, <3>3, <1>5
  <2> QED BY <2>1, <2>2
<1>9. \A q \in Requests :
        /\ IF op'[q] \in RpcOps THEN executed'[q] <= MaxAttempts(op'[q]) ELSE executed'[q] = 0
        /\ op'[q] \in RpcOps /\ pc'[q] \in {"start", "calls", "sleeps"} => executed'[q] < MaxAttempts(op'[q])
  BY <1>1, <1>7, <1>8 DEF FeesInv
<1> QED BY <1>2, <1>3, <1>4, <1>6, <1>9 DEF FeesInv, MaxAttempts, IsRead

LEMMA FeeStepIsSo ==
  ASSUME FilesInv, FeesInv, NEW r \in Requests, FeeStep(r)
  PROVE  FeeMove(r)
<1>0. FilesTyped BY DEF FilesInv
<1>1. ASSUME NEW a, Return(r, a)
      PROVE  UNCHANGED <<op, arg>> /\ pc'[r] = "done" /\ \A q \in Requests : q # r => pc'[q] = pc[q]
  BY <1>0, <1>1 DEF Return, Answer, FilesTyped
<1>2. ASSUME NEW s, GoTo(r, s, Nothing)
      PROVE  UNCHANGED <<op, arg>> /\ pc'[r] = s /\ \A q \in Requests : q # r => pc'[q] = pc[q]
  BY <1>0, <1>2 DEF GoTo, FilesTyped
<1>3. \A s \in {"network", "legacy", "helius"} : Awaits(r, s) => FeeMove(r)
  BY <1>2 DEF Awaits, feeVars, FeeMove
<1>4. NoFee(r) => FeeMove(r) BY <1>1 DEF NoFee, feeVars, FeeMove
<1>5. ASSUME NEW e \in Estimate, e.fresh, Accepted(r, e), Uses(r, e), UNCHANGED estimate
      PROVE  FeeMove(r)
  BY <1>5, <1>1 DEF Uses, FeeMove
<1>6. ASSUME NEW e \in Estimate, NEW c \in Caches, e.fresh, Sound(c, e), Accepted(r, e), Uses(r, e), Caching(c, e)
      PROVE  FeeMove(r)
  BY <1>6, <1>1 DEF Uses, Caching, FeeMove
<1>7. "gas" \in Caches /\ "priority" \in Caches BY DEF Caches
<1>8. \A c \in Caches, e \in Estimate : Sound(c, e) => Accepted(r, e)
  BY DEF Sound, Accepted, Caches
<1>9. \A c \in Caches : estimate[c] \in Estimate /\ Sound(c, estimate[c]) BY DEF FeesInv
<1>10. EstimateGasPrice(r) => FeeMove(r)
  BY <1>3, <1>5, <1>7, <1>8, <1>9 DEF EstimateGasPrice, Usable
<1>11. GasRequest(r) => FeeMove(r)
  <2>1. ASSUME Uses(r, Provided(r)), UNCHANGED estimate, arg[r].price # 0, op[r] = "prepare gas",
               arg[r] \in FeeArgs
        PROVE  FeeMove(r)
    <3>1. Provided(r).kind \in {"eip1559", "legacy"} /\ Provided(r).fresh = TRUE BY DEF Provided
    <3>2. gasConfig.tip \in GasAmounts BY DEF FeesInv, GasConfigs
    <3>3. arg[r].price \in GasAmounts BY <2>1 DEF FeeArgs
    <3>4. \A x \in GasAmounts : x \in Nat BY FeesAssumption DEF GasAmounts
    <3>5. Provided(r) \in Estimate BY <3>2, <3>3, <3>4 DEF Provided, Estimate
    <3>6. Accepted(r, Provided(r)) BY <2>1, <3>1 DEF Accepted
    <3> QED BY <2>1, <3>1, <3>5, <3>6, <1>5
  <2>2. op[r] = "prepare gas" => arg[r] \in FeeArgs BY ArgsAreTyped DEF FeeOps
  <2>3. CASE Starts(r, "estimate gas") /\ EstimateGasPrice(r) BY <2>3, <1>10
  <2>4. CASE Starts(r, "prepare gas") /\ PrepareGasOptions(r)
    BY <2>1, <2>2, <2>4, <1>5, <1>7, <1>8, <1>9, <1>10 DEF PrepareGasOptions, Starts, Usable
  <2> QED BY <2>3, <2>4 DEF GasRequest
<1>12. NetworkFees(r) => FeeMove(r)
  <2>1. ASSUME NEW base \in GasAmounts, NEW tip \in GasAmounts,
               NEW n \in {FromEtherscan(RecommendedGasPrices(base, tip)), FromNode(base, tip)}
        PROVE  LET e == Eip1559(Or(gasConfig.base, n.base), Or(gasConfig.tip, n.tip)) IN
               e \in Estimate /\ e.fresh /\ Sound("gas", e)
    <3>1. base \in Nat /\ tip \in Nat /\ gasConfig.base \in Nat /\ gasConfig.tip \in Nat
      BY FeesAssumption DEF FeesInv, GasConfigs, GasAmounts
    <3>2. ((base * 2 + tip) - tip) \div 2 \in Nat BY <3>1
    <3>3. n.base \in Nat /\ n.tip \in Nat
      BY <3>1, <3>2 DEF FromEtherscan, RecommendedGasPrices, FromNode
    <3> DEFINE b == Or(gasConfig.base, n.base)
               t == Or(gasConfig.tip, n.tip)
    <3>4. b \in Nat /\ t \in Nat BY <3>1, <3>3 DEF Or
    <3> HIDE DEF b, t
    <3>5. FeeOf(b, t) \in Nat /\ t <= FeeOf(b, t) BY <3>4 DEF FeeOf
    <3>6. Eip1559(b, t) \in Estimate /\ Eip1559(b, t).fresh /\ Sound("gas", Eip1559(b, t))
      BY <3>4, <3>5 DEF Eip1559, Estimate, Sound
    <3> QED BY <3>6 DEF b, t
  <2>2. SUFFICES ASSUME NetworkFees(r) PROVE FeeMove(r) OBVIOUS
  <2>3. PICK base \in GasAmounts, tip \in GasAmounts :
          \E n \in {FromEtherscan(RecommendedGasPrices(base, tip)), FromNode(base, tip)} :
            IF base = 0 /\ tip = 0 /\ gasConfig.base = 0 /\ gasConfig.tip = 0 THEN Awaits(r, "legacy")
            ELSE LET e == Eip1559(Or(gasConfig.base, n.base), Or(gasConfig.tip, n.tip)) IN
                 Uses(r, e) /\ Caching("gas", e)
    BY <2>2 DEF NetworkFees
  <2> QED BY <2>1, <2>3, <1>3, <1>6, <1>7, <1>8
<1>13. LegacyPrice(r) => FeeMove(r)
  <2>1. ASSUME NEW price \in IF gasConfig.gasPrice # 0 THEN {gasConfig.gasPrice} ELSE GasAmounts \ {0}
        PROVE  LET e == [kind |-> "legacy", fee |-> price, tip |-> 0, fresh |-> TRUE] IN
               e \in Estimate /\ e.fresh /\ Sound("gas", e)
    <3>1. price \in Nat BY FeesAssumption DEF FeesInv, GasConfigs, GasAmounts
    <3> QED BY <3>1 DEF Estimate, Sound
  <2> QED BY <2>1, <1>4, <1>6, <1>7, <1>8 DEF LegacyPrice
<1>14. ASSUME NEW fee \in MinFee..MaxFee
       PROVE  Priority(fee) \in Estimate /\ Priority(fee).fresh /\ Sound("priority", Priority(fee))
  <2>1. fee \in Nat BY FeesAssumption
  <2> QED BY <2>1 DEF Priority, Estimate, Sound
<1>15. MinFee \in MinFee..MaxFee BY FeesAssumption
<1>16. PriorityRequest(r) => FeeMove(r)
  BY <1>3, <1>4, <1>5, <1>6, <1>7, <1>8, <1>9, <1>14, <1>15
     DEF PriorityRequest, PriorityFee, EstimateGasSolana, Usable
<1>17. HeliusFee(r) => FeeMove(r)
  <2>1. \A f \in Amounts : Clamped(f) \in MinFee..MaxFee BY FeesAssumption DEF Amounts, Clamped
  <2> QED BY <2>1, <1>6, <1>7, <1>8, <1>14, <1>15 DEF HeliusFee
<1>18. Call(r) => FeeMove(r) BY <1>2 DEF Call, feeVars, Starts, FeeMove
<1>19. Awake(r) => FeeMove(r) BY <1>2 DEF Awake, feeVars, At, FeeMove
<1>20. Attempt(r) => FeeMove(r) BY <1>1, <1>2 DEF Attempt, At, FeeMove
<1> QED BY <1>11, <1>12, <1>13, <1>16, <1>17, <1>18, <1>19, <1>20 DEF FeeStep

\* Of the other steps, none uses a fee or calls.
LEMMA FeesStay ==
  ASSUME FeesInv, UNCHANGED <<op, gasConfig, used, executed>>,
         estimate' \in [Caches -> Estimate], \A c \in Caches : Sound(c, estimate'[c]),
         \A q \in Requests : op[q] \in RpcOps /\ pc'[q] \in {"start", "calls", "sleeps"}
                              => pc[q] \in {"start", "calls", "sleeps"}
  PROVE  FeesInv'
<1>1. \A c, e : Sound(c, e)' <=> Sound(c, e) BY DEF Sound
<1> QED BY <1>1 DEF FeesInv, MaxAttempts, IsRead

\* The steps of Next: of a request, one of its family, which leaves the variables of the other
\* families alone; and those that nobody asked for.
LEMMA NextByFamily ==
  ASSUME FilesInv, [Next]_vars
  PROVE  \/ UNCHANGED vars
         \/ (\E c \in Caches : Expire(c)) /\ UNCHANGED <<walletVars, tradeVars, instanceVars, ledgerVars>>
         \/ Crash
         \/ Restart /\ UNCHANGED <<tradeVars, instanceVars, feeVars, ledgerVars>>
         \/ \E r \in Requests :
              /\ Watch /\ UNCHANGED <<op, arg>> /\ pc[r] # "done"
              /\ OwnStep(r) \/ (LoadEnds(r) /\ op[r] \in InstanceOps)
              /\ op[r] \in TokenOps => TokenStep(r)
              /\ op[r] \in PoolOps => PoolStep(r)
              /\ IF op[r] \in WalletOps THEN WalletStep(r) ELSE UNCHANGED walletVars
              /\ IF op[r] \in TradeOps THEN TradeStep(r) ELSE UNCHANGED sent
              /\ IF op[r] \in InstanceOps THEN InstanceStep(r) ELSE UNCHANGED instanceVars
              /\ IF op[r] \in FeeOps \cup RpcOps THEN FeeStep(r) ELSE UNCHANGED feeVars
              /\ IF op[r] \in LedgerOps THEN LedgerStep(r) ELSE UNCHANGED ledgerVars
<1> SUFFICES ASSUME NEW r \in Requests,
                    \/ op[r] \in TokenOps /\ TokenStep(r) /\ UNCHANGED listsOnly
                    \/ op[r] \in PoolOps /\ PoolStep(r) /\ UNCHANGED listsOnly
                    \/ op[r] \in WalletOps /\ WalletStep(r) /\ UNCHANGED <<sent, instanceVars, feeVars, ledgerVars>>
                    \/ op[r] \in TradeOps /\ TradeStep(r) /\ UNCHANGED <<walletVars, instanceVars, feeVars, ledgerVars>>
                    \/ op[r] \in InstanceOps /\ InstanceStep(r) /\ UNCHANGED <<walletVars, sent, feeVars, ledgerVars>>
                    \/ op[r] \in FeeOps \cup RpcOps /\ FeeStep(r) /\ UNCHANGED <<walletVars, sent, instanceVars, ledgerVars>>
                    \/ op[r] \in LedgerOps /\ LedgerStep(r) /\ UNCHANGED <<walletVars, sent, instanceVars, feeVars>>
             PROVE  /\ UNCHANGED <<op, arg>> /\ pc[r] # "done"
                    /\ OwnStep(r) \/ (LoadEnds(r) /\ op[r] \in InstanceOps)
                    /\ op[r] \in TokenOps => TokenStep(r)
                    /\ op[r] \in PoolOps => PoolStep(r)
                    /\ IF op[r] \in WalletOps THEN WalletStep(r) ELSE UNCHANGED walletVars
                    /\ IF op[r] \in TradeOps THEN TradeStep(r) ELSE UNCHANGED sent
                    /\ IF op[r] \in InstanceOps THEN InstanceStep(r) ELSE UNCHANGED instanceVars
                    /\ IF op[r] \in FeeOps \cup RpcOps THEN FeeStep(r) ELSE UNCHANGED feeVars
                    /\ IF op[r] \in LedgerOps THEN LedgerStep(r) ELSE UNCHANGED ledgerVars
  BY DEF Next
<1>1. OwnStep(r) \/ (LoadEnds(r) /\ op[r] \in InstanceOps)
  BY TokenStepsAreSo, PoolStepsAreSo, WalletStepsAreSo, TradeStepsAreSo, InstanceStepsAreSo, FeeStepsAreSo, LedgerStepsAreSo
<1>2. UNCHANGED <<op, arg>> /\ pc[r] # "done"
  <2>1. OwnStep(r) => UNCHANGED <<op, arg>> /\ pc[r] # "done" BY OthersStay
  <2> QED BY <2>1, <1>1 DEF LoadEnds
<1>3. /\ op[r] \in PoolOps => op[r] \notin TokenOps
      /\ op[r] \in WalletOps => op[r] \notin TokenOps \cup PoolOps
      /\ op[r] \in TradeOps => op[r] \notin TokenOps \cup PoolOps \cup WalletOps
      /\ op[r] \in InstanceOps => op[r] \notin TokenOps \cup PoolOps \cup WalletOps \cup TradeOps
      /\ op[r] \in FeeOps \cup RpcOps => op[r] \notin TokenOps \cup PoolOps \cup WalletOps \cup TradeOps \cup InstanceOps \cup LedgerOps
      /\ op[r] \in LedgerOps => op[r] \notin TokenOps \cup PoolOps \cup WalletOps \cup TradeOps \cup InstanceOps
  BY FamiliesAreApart
<1> QED BY <1>1, <1>2, <1>3 DEF listsOnly

LEMMA TheOthersStay ==
  ASSUME FilesInv, NEW r \in Requests, OwnStep(r) \/ (LoadEnds(r) /\ op[r] \in InstanceOps)
  PROVE  \A q \in Requests : q # r /\ op[q] \notin InstanceOps =>
            /\ pc'[q] = pc[q] /\ held'[q] = held[q] /\ answer'[q] = answer[q]
            /\ target'[q] = target[q] /\ list'[q] = list[q] /\ next'[q] = next[q]
<1>1. CASE OwnStep(r) BY <1>1, OthersStay
<1>2. CASE LoadEnds(r)
  <2>1. \A q \in Requests : op[q] \notin InstanceOps => pc[q] # "awaiting" BY StepsOfFamilies DEF InstanceSteps
  <2> QED BY <2>1, <1>2 DEF LoadEnds
<1> QED BY <1>1, <1>2

-----------------------------------------------------------------------------
LEMMA FeesAreInvariant == Spec => []FeesInv
<1>1. Init => FeesInv
  <2> SUFFICES ASSUME Init PROVE FeesInv OBVIOUS
  <2>1. FeesInit BY DEF Init, MemoryInit
  <2>2. NoEstimate \in Estimate /\ \A c : Sound(c, NoEstimate) BY DEF NoEstimate, Estimate, Sound
  <2>3. \A r \in Requests : executed[r] = 0 /\ MaxAttempts(op[r]) > 0 /\ MaxAttempts(op[r]) \in Nat
    BY <2>1, AttemptsAreFew DEF FeesInit
  <2> QED BY <2>1, <2>2, <2>3 DEF FeesInit, FeesInv
<1>2. FilesInv /\ FeesInv /\ [Next]_vars => FeesInv'
  <2> SUFFICES ASSUME FilesInv, FeesInv, [Next]_vars PROVE FeesInv' OBVIOUS
  <2>1. estimate \in [Caches -> Estimate] /\ \A c \in Caches : Sound(c, estimate[c]) BY DEF FeesInv
  <2>2. CASE UNCHANGED vars BY <2>1, <2>2, FeesStay DEF vars, feeVars, requestVars
  <2>3. CASE (\E c \in Caches : Expire(c)) /\ UNCHANGED <<walletVars, tradeVars, instanceVars, ledgerVars>>
    <3>1. PICK c \in Caches : Expire(c) BY <2>3
    <3>2. estimate' = [estimate EXCEPT ![c].fresh = FALSE] /\ UNCHANGED <<op, pc, gasConfig, used, executed>>
      BY <3>1 DEF Expire, requestVars
    <3>3. [estimate[c] EXCEPT !.fresh = FALSE] \in Estimate /\ Sound(c, [estimate[c] EXCEPT !.fresh = FALSE])
      <4>1. estimate[c] \in Estimate /\ Sound(c, estimate[c]) BY <2>1
      <4> QED BY <4>1 DEF Sound, Estimate
    <3> QED BY <2>1, <3>2, <3>3, FeesStay
  <2>4. CASE Crash
    <3>1. NoEstimate \in Estimate /\ \A c : Sound(c, NoEstimate) BY DEF NoEstimate, Estimate, Sound
    <3>2. UNCHANGED <<op, gasConfig, used, executed>> /\ estimate' = [c \in Caches |-> NoEstimate]
      BY <2>4, AfterCrash DEF Crash, CrashFees
    <3>3. \A q \in Requests : pc'[q] \in {"start", "done"} /\ (pc'[q] = "start" => pc[q] = "start")
      BY <2>4, AfterCrash DEF Crash, Waits
    <3> QED BY <3>1, <3>2, <3>3, FeesStay
  <2>5. CASE Restart /\ UNCHANGED <<tradeVars, instanceVars, feeVars, ledgerVars>>
    BY <2>1, <2>5, FeesStay DEF Restart, feeVars, requestVars
  <2>6. ASSUME NEW r \in Requests, UNCHANGED <<op, arg>>,
               OwnStep(r) \/ (LoadEnds(r) /\ op[r] \in InstanceOps),
               IF op[r] \in FeeOps \cup RpcOps THEN FeeStep(r) ELSE UNCHANGED feeVars
        PROVE  FeesInv'
    <3>1. CASE op[r] \in FeeOps \cup RpcOps
      <4>1. FilesTyped BY DEF FilesInv
      <4> QED BY <4>1, <3>1, <2>6, FeeStepIsSo, FeeMoveKeeps
    <3>2. CASE op[r] \notin FeeOps \cup RpcOps
      <4>1. \A q \in Requests : op[q] \in RpcOps => op[q] \notin InstanceOps /\ q # r BY <3>2, FamiliesAreApart
      <4>2. \A q \in Requests : op[q] \in RpcOps => pc'[q] = pc[q] BY <4>1, <2>6, TheOthersStay
      <4> QED BY <4>2, <3>2, <2>1, <2>6, FeesStay DEF feeVars
    <3> QED BY <3>1, <3>2
  <2> QED BY <2>2, <2>3, <2>4, <2>5, <2>6, NextByFamily
<1> QED BY <1>1, <1>2, FilesAreInvariant, PTL DEF Spec

\* A call that writes reaches the node at most once, whatever the node answers.
THEOREM WritesAreMadeOnce == Spec => []WritesOnce
<1>1. FeesInv => WritesOnce
  <2> SUFFICES ASSUME FeesInv, NEW r \in Requests, op[r] = "rpc write" PROVE executed[r] <= 1 BY DEF WritesOnce
  <2>1. MaxAttempts(op[r]) = 1 /\ op[r] \in RpcOps BY DEF MaxAttempts, IsRead, RpcOps
  <2> QED BY <2>1 DEF FeesInv
<1> QED BY <1>1, FeesAreInvariant, PTL

\* Whatever fees, multipliers and answers of the networks: an estimate that a request uses is
\* fresh, its fee covers its tip, and a priority fee is within its bounds.
THEOREM FeesAreAccepted == Spec => FeesAreSound
<1>1. FilesInv /\ FeesInv /\ [Next]_vars =>
        [\A r \in Requests : used'[r] # used[r] => used'[r].fresh /\ Accepted(r, used'[r])]_vars
  <2> SUFFICES ASSUME FilesInv, FeesInv, [Next]_vars, NEW q \in Requests, used'[q] # used[q]
               PROVE  used'[q].fresh /\ Accepted(q, used'[q])
    OBVIOUS
  <2>1. CASE UNCHANGED used BY <2>1
  <2>2. ASSUME NEW r \in Requests, FeeStep(r)
        PROVE  used'[q].fresh /\ Accepted(q, used'[q])
    <3>1. FeeMove(r) BY <2>2, FeeStepIsSo
    <3>2. PICK e \in Estimate : e.fresh /\ Accepted(r, e) /\ used' = [used EXCEPT ![r] = e] BY <3>1 DEF FeeMove
    <3>3. q = r /\ used'[r] = e BY <3>2 DEF FeesInv
    <3> QED BY <3>2, <3>3
  <2>3. \/ UNCHANGED vars \/ (\E c \in Caches : Expire(c)) \/ Crash \/ UNCHANGED feeVars
        \/ \E r \in Requests : FeeStep(r)
    BY NextByFamily
  <2> QED BY <2>1, <2>2, <2>3 DEF vars, feeVars, Expire, Crash, CrashFees
<1> QED BY <1>1, FilesAreInvariant, FeesAreInvariant, PTL DEF Spec, FeesAreSound

-----------------------------------------------------------------------------
\* The lists.  What a change makes of a list, and what it keeps of it.
TokenIn(r, l) == IF op[r] = "remove token" THEN SameAddress(l, arg[r]) = {} ELSE arg[r] \in l
PoolIn(r, l) == IF op[r] = "remove pool" THEN SameAddress(l, arg[r]) = {} ELSE arg[r] \in l
TokenChanges == {"add token", "remove token"}
PoolChanges == {"add pool", "remove pool", "find and save pool"}
PoolUsers == PoolOps \cup SwapOps
ListUsers == TokenOps \cup PoolUsers

\* Which of the requests for pools take more steps than one.
Staged(r, s) ==
  /\ s \in PoolSteps => op[r] \in {"add pool", "find and save pool"}
  /\ s \in {"token", "tokenAdd"} => op[r] = "find and save pool"

\* The steps of the requests for lists: between two saves, ...
Rests(r) ==
  /\ pc[r] \notin SavingSteps /\ pc'[r] \notin SavingSteps
  /\ pc'[r] = "start" => pc[r] = "start" /\ (op[r] \in PoolUsers => Reads(r, "pools"))
  /\ held'[r].flag => held'[r] = held[r] /\ pc'[r] = "done"
  /\ op[r] \in PoolOps => Staged(r, pc'[r])
  /\ answer'[r] = "ok" => answer[r] = "ok" \/ op[r] \notin TokenChanges \cup PoolChanges
  /\ answer'[r] = "ok" => answer[r] = "ok" \/ pc'[r] = "done"
  /\ UNCHANGED <<target, list, next, entry, data, expected, clash>>

\* ... saving the template, ...
SavesTemplate(r) ==
  /\ op[r] \in PoolUsers /\ pc[r] \notin SavingSteps \cup {"token", "tokenAdd", "done"} /\ Missing(r)
  /\ Save(r, "pools", Template, pc[r], [held[r] EXCEPT !.flag = TRUE, !.read = Whole(Template)])

\* ... a change of the tokens, ...
SavesTokens(r) ==
  /\ pc[r] \notin SavingSteps /\ HasWhole(r)
  /\ \E l, n, h :
       /\ Save(r, "tokens", l, n, h) /\ ~h.flag
       /\ \/ /\ op[r] \in TokenOps /\ n = "done"
             /\ op[r] \in TokenChanges => TokenIn(r, l)
             /\ \A x \in TokensRead(r) : x.symbol # arg[r].symbol /\ x.address # arg[r].address => x \in l
             /\ l \subseteq TokensRead(r) \cup {arg[r]}
          \/ op[r] = "find and save pool" /\ n = "token"

\* ... or of the pools, ...
SavesPools(r) ==
  /\ op[r] \in PoolOps /\ pc[r] \notin SavingSteps /\ Loaded(r)
  /\ \E l, n :
       /\ Save(r, "pools", l, n, Nothing) /\ n \in {"add", "done"}
       /\ op[r] \in PoolChanges
       /\ n = "done" => PoolIn(r, l)
       /\ n = "add" => op[r] = "add pool"
       /\ op[r] # "add pool" => \A x : x.address # arg[r].address => (x \in l <=> x \in ThePools(r))

\* ... and within a save.
Writes(r) ==
  \/ Open(r) \/ Write(r)
  \/ \E s \in Answers \ {"ok"} : LET swallows == ListOf(target[r]) = "tokens" /\ op[r] \in PoolOps IN
                           Rename(r, swallows, s) \/ WriteFails(r, swallows, s)

ListStep(r) == up /\ (Rests(r) \/ SavesTemplate(r) \/ SavesTokens(r) \/ SavesPools(r) \/ Writes(r))

\* Who saves what; the template is the list to whoever saved it.
StageOf(r) ==
  op[r] \in PoolOps => \A s \in PoolSteps : pc[r] = s \/ (pc[r] \in SavingSteps /\ next[r] = s) =>
    Staged(r, s) /\ (s \in {"token", "tokenAdd"} => ~held[r].flag)
FlagOf(r) == op[r] \in ListUsers /\ held[r].flag => op[r] \in PoolUsers /\ held[r].read = Whole(Template)
SaverOf(r) ==
  pc[r] \in SavingSteps =>
    /\ op[r] \in TokenOps => ListOf(target[r]) = "tokens" /\ next[r] = "done"
    /\ op[r] \in WalletOps => ListOf(target[r]) \notin {"tokens", "pools"}
    /\ op[r] \in PoolUsers => ListOf(target[r]) \in {"tokens", "pools"}
    /\ op[r] \in PoolUsers /\ held[r].flag =>
         ListOf(target[r]) = "pools" /\ list[r] = Template /\ next[r] # "done"
    /\ op[r] \in PoolUsers /\ ~held[r].flag =>
         /\ op[r] \in PoolChanges /\ next[r] # "start"
         /\ ListOf(target[r]) = "tokens" => op[r] = "find and save pool" /\ next[r] = "token"
    /\ op[r] \in TokenChanges => TokenIn(r, list[r])
    /\ op[r] \in PoolChanges /\ next[r] = "done" => PoolIn(r, list[r])

\* A change that was told to have been made is on its list, and on those that are being saved,
\* as long as the others have not begun, but for a template.
NotBegun(q) ==
  pc[q] = "start" \/ (pc[q] \in SavingSteps /\ op[q] \in PoolOps /\ held[q].flag /\ next[q] = "start")
NobodyElse(r) == \A q \in Others(r) : NotBegun(q) \/ ~Touches(q, r)
TokensKept(r) ==
  Undisturbed("tokens") =>
    TokenIn(r, expected["tokens"]) /\ \A q \in Requests : Saving(q, "tokens") => TokenIn(r, list[q])
PoolsKept(r) ==
  Undisturbed("pools") =>
    /\ PoolIn(r, expected["pools"]) /\ \A q \in Requests : Saving(q, "pools") => PoolIn(r, list[q])
    /\ entry["pools"] # NoFile
KeptOf(r) ==
  answer[r] = "ok" /\ NobodyElse(r) =>
    (op[r] \in TokenChanges => TokensKept(r)) /\ (op[r] \in PoolChanges => PoolsKept(r))
ToldOf(r) == answer[r] = "ok" /\ op[r] \in TokenChanges \cup PoolChanges => pc[r] = "done"

ListsInv == \A r \in Requests : StageOf(r) /\ FlagOf(r) /\ SaverOf(r) /\ KeptOf(r) /\ ToldOf(r)

\* The steps of the routes for lists are such steps.
LEMMA ReturnRests ==
  ASSUME FilesInv, NEW r \in Requests, pc[r] \notin SavingSteps, up, NEW a, Return(r, a),
         a # "ok" \/ op[r] \notin TokenChanges \cup PoolChanges
  PROVE  ListStep(r)
<1>1. /\ pc'[r] = "done" /\ answer'[r] = a
      /\ UNCHANGED <<held, target, list, next, entry, data, expected, clash>>
  BY DEF FilesInv, FilesTyped, Return, Answer, fileVars
<1> QED BY <1>1 DEF ListStep, Rests, SavingSteps, PoolSteps, Staged

LEMMA GoToRests ==
  ASSUME FilesInv, NEW r \in Requests, pc[r] \notin SavingSteps, up, NEW s, NEW h, GoTo(r, s, h), ~h.flag,
         s \notin SavingSteps \cup {"start"}, op[r] \in PoolOps => Staged(r, s)
  PROVE  ListStep(r)
<1>1. /\ pc'[r] = s /\ held'[r] = h /\ answer'[r] = answer[r]
      /\ UNCHANGED <<target, list, next, entry, data, expected, clash>>
  BY DEF FilesInv, FilesTyped, GoTo, fileVars
<1> QED BY <1>1 DEF ListStep, Rests

LEMMA ReadRests ==
  ASSUME FilesInv, NEW r \in Requests, op[r] \in ListUsers, FlagOf(r), StageOf(r),
         pc[r] \notin SavingSteps, up, NEW d \in {"tokens", "pools"}, Reads(r, d),
         pc[r] = "start" /\ op[r] \in PoolUsers => d = "pools"
  PROVE  ListStep(r)
<1>1. /\ pc'[r] = pc[r] /\ held'[r].flag = held[r].flag /\ answer'[r] = answer[r]
      /\ UNCHANGED <<target, list, next, entry, data, expected, clash>>
  BY DEF FilesInv, FilesTyped, Holds, Reads, GoTo, fileVars
<1>2. ~held[r].flag
  <2>1. Whole(Template).state = "whole" /\ NotRead.state = "not read" BY DEF Whole, NotRead
  <2>2. held[r].read = NotRead BY DEF Reads, HasRead
  <2> QED BY <2>1, <2>2 DEF FlagOf
<1>3. op[r] \in PoolOps => Staged(r, pc'[r])
  <2>1. pc[r] \in PoolSteps /\ op[r] \in PoolOps => Staged(r, pc[r]) BY DEF StageOf
  <2>2. pc[r] \notin PoolSteps => Staged(r, pc[r]) BY DEF Staged, PoolSteps
  <2> QED BY <2>1, <2>2, <1>1
<1>4. pc'[r] = "start" /\ op[r] \in PoolUsers => Reads(r, "pools") BY <1>1
<1> QED BY <1>1, <1>2, <1>3, <1>4 DEF ListStep, Rests

LEMMA TokensAreLists ==
  ASSUME FilesInv, NEW r \in Requests, StageOf(r), FlagOf(r), op[r] \in TokenOps, TokenStep(r)
  PROVE  ListStep(r)
<1> USE DEF SavingSteps
<1>1. op[r] \notin PoolChanges /\ ~Nothing.flag
  BY DEF TokenOps, PoolChanges, Nothing
<1>2. \A a : a # "ok" /\ pc[r] \in {"start", "add"} /\ up /\ Return(r, a) => ListStep(r) BY ReturnRests
<1>3. /\ DOMAIN TokenErrors = {"missing", "chain", "malformed", "duplicate", "json", "other"}
      /\ \A e \in DOMAIN TokenErrors : TokenErrors[e] \in Answers \ {"ok"}
  BY DEF TokenErrors, Answers
<1>4. \A e \in DOMAIN TokenErrors : pc[r] \in {"start", "add"} /\ up /\ Return(r, TokenErrors[e]) => ListStep(r)
  BY <1>2, <1>3
<1> DEFINE Changes(l) ==
             /\ op[r] \in TokenChanges => TokenIn(r, l)
             /\ \A x \in TokensRead(r) : x.symbol # arg[r].symbol /\ x.address # arg[r].address => x \in l
             /\ l \subseteq TokensRead(r) \cup {arg[r]}
<1>11. op[r] \in ListUsers /\ op[r] \notin PoolUsers BY FamiliesAreApart DEF ListUsers, PoolUsers
<1>12. pc[r] \in {"start", "add"} /\ up /\ Reads(r, "tokens") => ListStep(r)
  BY <1>11, ReadRests
<1>5. \A l : /\ pc[r] \in {"start", "add"} /\ up /\ HasWhole(r) /\ Changes(l)
            /\ Save(r, "tokens", l, "done", Nothing)
            => ListStep(r)
  <2> SUFFICES ASSUME NEW l, pc[r] \in {"start", "add"}, up, HasWhole(r), Changes(l),
                      Save(r, "tokens", l, "done", Nothing)
               PROVE  ListStep(r)
    OBVIOUS
  <2>1. /\ Save(r, "tokens", l, "done", Nothing) /\ ~Nothing.flag
        /\ \/ /\ op[r] \in TokenOps /\ "done" = "done"
              /\ op[r] \in TokenChanges => TokenIn(r, l)
              /\ \A x \in TokensRead(r) : x.symbol # arg[r].symbol /\ x.address # arg[r].address => x \in l
              /\ l \subseteq TokensRead(r) \cup {arg[r]}
           \/ op[r] = "find and save pool" /\ "done" = "token"
    BY <1>1
  <2>2. pc[r] \notin SavingSteps OBVIOUS
  <2>3. SavesTokens(r) BY <2>1, <2>2, Zenon DEF SavesTokens
  <2> QED BY <2>3 DEF ListStep
<1> HIDE DEF Changes
<1>6. CASE AddToken(r)
  <2>1. pc[r] \in {"start", "add"} /\ up /\ op[r] # "remove token" BY <1>6 DEF AddToken, Starts, At
  <2>2. CASE HasWhole(r) /\ Save(r, "tokens", WithToken(TokensRead(r), arg[r]), "done", Nothing)
    <3>1. op[r] \in TokenChanges => TokenIn(r, WithToken(TokensRead(r), arg[r])) BY <2>1 DEF WithToken, TokenIn
    <3>2. \A x \in TokensRead(r) : x.symbol # arg[r].symbol /\ x.address # arg[r].address => x \in WithToken(TokensRead(r), arg[r])
      BY DEF WithToken, SameSymbol
    <3>3. WithToken(TokensRead(r), arg[r]) \subseteq TokensRead(r) \cup {arg[r]} BY DEF WithToken
    <3>4. Changes(WithToken(TokensRead(r), arg[r])) BY <3>1, <3>2, <3>3 DEF Changes
    <3> QED BY <2>1, <2>2, <3>4, <1>5
  <2>3. \A e \in DOMAIN TokenErrors : Return(r, TokenErrors[e]) => ListStep(r) BY <2>1, <1>4
  <2>4. /\ Return(r, TokenErrors.malformed) => ListStep(r)
        /\ Return(r, TokenErrors.json) => ListStep(r)
        /\ Return(r, TokenErrors.duplicate) => ListStep(r)
    BY <2>3, <1>3
  <2>5. LoadAndAdd(r) BY <1>6 DEF AddToken
  <2> QED BY <2>1, <2>2, <2>4, <2>5, <1>12 DEF LoadAndAdd, ValidateToken, LoadTokens
<1>7. CASE RemoveToken(r)
  <2>1. pc[r] \in {"start", "add"} /\ up /\ op[r] = "remove token" BY <1>7 DEF RemoveToken, Starts
  <2>2. CASE HasWhole(r) /\ Save(r, "tokens", TokensRead(r) \ SameAddress(TokensRead(r), arg[r]), "done", Nothing)
    <3> DEFINE l == TokensRead(r) \ SameAddress(TokensRead(r), arg[r])
    <3>1. op[r] \in TokenChanges => TokenIn(r, l) BY <2>1 DEF SameAddress, TokenIn
    <3>2. \A x \in TokensRead(r) : x.symbol # arg[r].symbol /\ x.address # arg[r].address => x \in l BY DEF SameAddress
    <3>3. l \subseteq TokensRead(r) \cup {arg[r]} OBVIOUS
    <3>4. Save(r, "tokens", l, "done", Nothing) BY <2>2
    <3> HIDE DEF l
    <3>5. Changes(l) BY <3>1, <3>2, <3>3 DEF Changes
    <3> QED BY <2>1, <2>2, <3>4, <3>5, <1>5
  <2>3. \A e \in DOMAIN TokenErrors : Return(r, TokenErrors[e]) => ListStep(r) BY <2>1, <1>4
  <2>4. /\ Return(r, TokenErrors.chain) => ListStep(r)
        /\ Return(r, TokenErrors.json) => ListStep(r)
        /\ Return(r, TokenErrors.missing) => ListStep(r)
    BY <2>3, <1>3
  <2>5. Return(r, TokenErrors.chain) \/ LoadAndRemove(r) BY <1>7 DEF RemoveToken
  <2> QED BY <2>1, <2>2, <2>4, <2>5, <1>12 DEF LoadAndRemove, LoadTokens
<1>8. CASE GetToken(r) \/ ListTokens(r) \/ FindToken(r)
  <2>1. pc[r] = "start" /\ up /\ op[r] \notin TokenChanges
    BY <1>8 DEF GetToken, ListTokens, FindToken, Starts, TokenChanges
  <2>2. \A a : Return(r, a) => ListStep(r) BY <2>1, <1>1, ReturnRests
  <2> QED BY <2>2, <1>8 DEF GetToken, ListTokens, FindToken, TokensBroken, NoTokenInfo
<1>9. CASE FindAndSaveToken(r)
  <2>1. pc[r] = "start" /\ up /\ op[r] \notin TokenChanges BY <1>9 DEF FindAndSaveToken, Starts, TokenChanges
  <2>2. \A a : Return(r, a) => ListStep(r) BY <2>1, <1>1, ReturnRests
  <2>3. op[r] \notin PoolOps BY FamiliesAreApart
  <2>4. GoTo(r, "add", Nothing) => ListStep(r) BY <2>1, <2>3, <1>1, GoToRests
  <2> QED BY <2>2, <2>4, <1>9 DEF FindAndSaveToken, TokensBroken, NoTokenInfo
<1>10. CASE SaveTokens(r)
  <2>1. up BY <1>10 DEF SaveTokens, Open, Write, Rename, WriteFails, At
  <2>2. TokenErrors.other \in Answers \ {"ok"} BY <1>3
  <2>3. op[r] \notin PoolOps BY FamiliesAreApart
  <2> QED BY <2>1, <2>2, <2>3, <1>10 DEF SaveTokens, ListStep, Writes
<1> QED BY <1>6, <1>7, <1>8, <1>9, <1>10 DEF TokenStep

LEMMA LoadPoolsRests ==
  ASSUME FilesInv, NEW r \in Requests, op[r] \in PoolUsers, StageOf(r), FlagOf(r),
         pc[r] \notin SavingSteps \cup {"token", "tokenAdd", "done"}, up, NEW a, a # "ok", LoadPools(r, a)
  PROVE  ListStep(r)
<1>1. Reads(r, "pools") => ListStep(r) BY ReadRests DEF ListUsers
<1> QED BY <1>1, ReturnRests DEF LoadPools, ListStep, SavesTemplate

LEMMA PoolsAreLists ==
  ASSUME FilesInv, NEW r \in Requests, StageOf(r), FlagOf(r), op[r] \in PoolOps, PoolStep(r)
  PROVE  ListStep(r)
<1> DEFINE quiet == pc[r] \in {"start"} \cup PoolSteps /\ up
<1>1. quiet => pc[r] \notin SavingSteps \cup {"done"} /\ up BY DEF PoolSteps, SavingSteps
<1> HIDE DEF quiet
<1>2. op[r] \in PoolUsers BY DEF PoolUsers
<1>3. \A a : a # "ok" /\ quiet /\ Return(r, a) => ListStep(r) BY <1>1, ReturnRests
<1>4. \A a : a # "ok" /\ quiet /\ pc[r] \notin {"token", "tokenAdd"} /\ LoadPools(r, a) => ListStep(r)
  BY <1>1, <1>2, LoadPoolsRests
<1>5. /\ DOMAIN PoolErrors = {"missing", "chain", "connector", "other"}
      /\ \A e \in DOMAIN PoolErrors : PoolErrors[e] # "ok"
      /\ PoolStatus(r) \in Answers \ {"ok"} /\ PoolErrors.other # "ok" /\ PoolErrors.missing # "ok" /\ PoolErrors.chain # "ok"
  BY DEF PoolErrors, PoolStatus, Answers
<1>13. pc[r] \in PoolSteps => Staged(r, pc[r]) BY DEF StageOf
<1>6. \A s \in PoolSteps : \A h : Staged(r, s) /\ ~h.flag /\ quiet /\ GoTo(r, s, h) => ListStep(r)
  <2>1. PoolSteps \cap (SavingSteps \cup {"start"}) = {} BY DEF PoolSteps, SavingSteps
  <2> QED BY <2>1, <1>1, GoToRests
<1>7. ~Nothing.flag /\ (\A x : ~[Nothing EXCEPT !.old = x].flag) /\ \A x : ~ToDo(x).flag BY DEF Nothing, ToDo
<1>8. ASSUME NEW l, NEW n \in {"done", "add"}, quiet, Loaded(r), Save(r, "pools", l, n, Nothing), op[r] \in PoolChanges,
             n = "done" => PoolIn(r, l), n = "add" => op[r] = "add pool",
             op[r] # "add pool" => \A x : x.address # arg[r].address => (x \in l <=> x \in ThePools(r))
      PROVE  ListStep(r)
  BY <1>1, <1>8 DEF ListStep, SavesPools
<1>9. CASE AddPoolRoute(r)
  <2>1. quiet /\ op[r] = "add pool" /\ pc[r] \notin {"token", "tokenAdd"} BY <1>9 DEF AddPoolRoute, Starts, quiet
  <2> QED BY <2>1, <1>3, <1>4, <1>6, <1>7, <1>9 DEF AddPoolRoute, FetchPoolInfo, PoolSteps, Staged
<1>10. CASE PoolByAddress(r) \/ PoolKnown(r)
  <2>1. quiet /\ op[r] \in {"add pool", "find and save pool"} /\ pc[r] \notin {"token", "tokenAdd"}
    BY <1>10, <1>13 DEF PoolByAddress, PoolKnown, At, quiet, PoolSteps, Staged
  <2> QED BY <2>1, <1>4, <1>5, <1>6, <1>7, <1>10 DEF PoolByAddress, PoolKnown, PoolSteps, Staged
<1>11. CASE ReplacePool(r)
  <2>1. quiet /\ op[r] = "add pool" /\ pc[r] \notin {"token", "tokenAdd"} BY <1>11 DEF ReplacePool, At, quiet, PoolSteps
  <2>2. ASSUME Loaded(r), NEW old, Save(r, "pools", ThePools(r) \ SameAddress(ThePools(r), old), "add", Nothing)
        PROVE  ListStep(r)
    BY <2>1, <2>2, <1>8 DEF PoolChanges
  <2> QED BY <2>1, <2>2, <1>3, <1>4, <1>11 DEF ReplacePool
<1>12. CASE UpdatePool(r)
  <2>1. quiet /\ op[r] = "add pool" /\ pc[r] \notin {"token", "tokenAdd"} BY <1>12 DEF UpdatePool, At, quiet, PoolSteps
  <2>2. ASSUME Loaded(r), NEW old, Save(r, "pools", (ThePools(r) \ {old}) \cup {arg[r]}, "done", Nothing)
        PROVE  ListStep(r)
    BY <2>1, <2>2, <1>8 DEF PoolIn, PoolChanges
  <2> QED BY <2>1, <2>2, <1>3, <1>4, <1>5, <1>12 DEF UpdatePool, ValidatePool
<1>14. CASE RemovePool(r)
  <2>1. quiet /\ op[r] = "remove pool" /\ pc[r] \notin {"token", "tokenAdd"} BY <1>14 DEF RemovePool, Starts, quiet
  <2>2. ASSUME Loaded(r), Save(r, "pools", ThePools(r) \ SameAddress(ThePools(r), arg[r]), "done", Nothing)
        PROVE  ListStep(r)
    BY <2>1, <2>2, <1>8 DEF PoolIn, SameAddress, PoolChanges
  <2> QED BY <2>1, <2>2, <1>3, <1>4, <1>14 DEF RemovePool, LoadAndRemovePool
<1>15. CASE ListPools(r) \/ GetPool(r) \/ FindPools(r) \/ FindPool(r)
  <2>1. quiet /\ op[r] \notin PoolChanges \cup TokenChanges /\ pc[r] \notin {"token", "tokenAdd"}
    BY <1>15 DEF ListPools, GetPool, FindPools, FindPool, Starts, quiet, PoolChanges, TokenChanges
  <2>2. \A a : Return(r, a) => ListStep(r) BY <2>1, <1>1, ReturnRests
  <2> QED BY <2>1, <2>2, <1>4, <1>15
          DEF ListPools, GetPool, FindPools, FindPool, TokensBroken, TopPoolsForToken, TopPoolsByNetwork, NoPoolInfo
<1>16. CASE FindAndSavePool(r)
  <2>1. quiet /\ op[r] = "find and save pool" BY <1>16 DEF FindAndSavePool, Starts, quiet
  <2> QED BY <2>1, <1>3, <1>5, <1>6, <1>7, <1>16 DEF FindAndSavePool, NoPoolInfo, PoolSteps, Staged
<1>17. CASE AddPool(r)
  <2>1. quiet /\ op[r] \in {"add pool", "find and save pool"} /\ pc[r] \notin {"token", "tokenAdd"}
    BY <1>13, <1>17 DEF AddPool, At, quiet, PoolSteps, Staged
  <2>2. ASSUME Loaded(r), Save(r, "pools", ThePools(r) \cup {arg[r]}, "done", Nothing)
        PROVE  ListStep(r)
    BY <2>1, <2>2, <1>8 DEF PoolIn, PoolChanges
  <2> QED BY <2>1, <2>2, <1>3, <1>4, <1>5, <1>17 DEF AddPool, ValidatePool
<1>18. CASE PoolToken(r)
  <2>1. quiet /\ pc[r] = "token" BY <1>18 DEF PoolToken, At, quiet, PoolSteps
  <2>2. op[r] = "find and save pool" /\ ~held[r].flag BY <2>1 DEF StageOf, PoolSteps, Staged
  <2>3. \A s \in PoolSteps : Staged(r, s) BY <2>2 DEF Staged
  <2>4. \A s \in {"pool", "token", "tokenAdd"} : \A h : ~h.flag /\ GoTo(r, s, h) => ListStep(r)
    BY <2>1, <2>3, <1>6 DEF PoolSteps
  <2>5. Return(r, PoolErrors.other) => ListStep(r) BY <2>1, <1>3, <1>5
  <2> QED BY <2>2, <2>4, <2>5, <1>7, <1>18 DEF PoolToken, TokensBroken
<1>19. CASE PoolTokenAdd(r)
  <2>1. quiet /\ pc[r] = "tokenAdd" BY <1>19 DEF PoolTokenAdd, At, quiet, PoolSteps
  <2>2. op[r] = "find and save pool" /\ op[r] \notin TokenOps BY <2>1 DEF StageOf, PoolSteps, Staged, TokenOps
  <2>3. \A h : ~h.flag /\ GoTo(r, "token", h) => ListStep(r) BY <2>1, <2>2, <1>6 DEF PoolSteps, Staged
  <2>4. \A l, h : HasWhole(r) /\ ~h.flag /\ Save(r, "tokens", l, "token", h) => ListStep(r)
    BY <2>1, <2>2, <1>1 DEF ListStep, SavesTokens
  <2>5. Reads(r, "tokens") => ListStep(r) BY <2>1, <1>1, <1>2, ReadRests DEF ListUsers
  <2> QED BY <2>3, <2>4, <2>5, <1>7, <1>19 DEF PoolTokenAdd
<1>20. CASE UpdatePoolByAddress(r)
  <2>1. quiet /\ op[r] = "find and save pool" /\ pc[r] \notin {"token", "tokenAdd"}
    BY <1>20 DEF UpdatePoolByAddress, At, quiet, PoolSteps
  <2>2. ASSUME Loaded(r), NEW old \in SameAddress(ThePools(r), arg[r]),
               Save(r, "pools", (ThePools(r) \ {old}) \cup {arg[r]}, "done", Nothing)
        PROVE  ListStep(r)
    BY <2>1, <2>2, <1>8 DEF PoolIn, PoolChanges, SameAddress
  <2> QED BY <2>1, <2>2, <1>3, <1>4, <1>5, <1>20 DEF UpdatePoolByAddress, ValidatePool
<1>21. CASE SavePools(r)
  <2>1. up BY <1>21 DEF SavePools, Open, Write, Rename, WriteFails, At
  <2> QED BY <2>1, <1>5, <1>21 DEF SavePools, ListStep, Writes
<1> QED BY <1>9, <1>10, <1>11, <1>12, <1>14, <1>15, <1>16, <1>17, <1>18, <1>19, <1>20, <1>21 DEF PoolStep

LEMMA SwapsAreLists ==
  ASSUME FilesInv, NEW r \in Requests, StageOf(r), FlagOf(r), op[r] \in SwapOps, TradeStep(r)
  PROVE  ListStep(r)
<1>1. op[r] \in PoolUsers /\ op[r] \notin TokenChanges \cup PoolChanges
  BY DEF SwapOps, PoolUsers, TokenChanges, PoolChanges
<1>2. \A a : pc[r] = "start" /\ up /\ Return(r, a) => ListStep(r) BY <1>1, ReturnRests DEF SavingSteps
<1>3. \A a : pc[r] = "start" /\ up /\ Fails(r, a) => ListStep(r) BY <1>2 DEF Fails
<1>4. \A to, pools : pc[r] = "start" /\ up /\ Dispatch(r, to, pools) => ListStep(r) BY <1>2 DEF Dispatch
<1>5. ASSUME NEW providers, pc[r] = "start", up, Route(r, providers)
      PROVE  ListStep(r)
  <2>1. LoadPools(r, "error") => ListStep(r) BY <1>1, <1>5, LoadPoolsRests DEF SavingSteps
  <2>2. \A to : RouteTo(r, to, providers) => ListStep(r) BY <2>1, <1>3, <1>4, <1>5 DEF RouteTo
  <2> QED BY <2>2, <1>3, <1>5 DEF Route
<1>6. CASE QuoteSwap(r) \/ ExecuteSwap(r)
  <2>1. pc[r] = "start" /\ up BY <1>6 DEF QuoteSwap, ExecuteSwap, Starts
  <2> QED BY <2>1, <1>3, <1>5, <1>6
          DEF QuoteSwap, ExecuteSwap, QuoteSolanaSwap, QuoteEthereumSwap, ExecuteSolanaSwap, ExecuteEthereumSwap,
              Unparsed, UnknownChain
<1>7. CASE SaveTemplate(r)
  <2>1. up BY <1>7 DEF SaveTemplate, Open, Write, Rename, WriteFails, At
  <2>2. op[r] \notin PoolOps BY DEF SwapOps, PoolOps
  <2>3. "error" \in Answers \ {"ok"} BY DEF Answers
  <2> QED BY <2>1, <2>2, <2>3, <1>7 DEF SaveTemplate, ListStep, Writes
<1>8. (pc[r] = "start" /\ (QuoteSwap(r) \/ ExecuteSwap(r))) \/ SaveTemplate(r)
  BY DEF TradeStep, SwapOps, QuoteSwap, ExecuteSwap, Starts, OpenPosition, AddToPosition, RemovePosition, CollectFees,
         ClosePosition, CreateClmmPool, ClmmPoolInfo, ClmmPositionInfo, ClmmPositionsOwned, ClmmQuotePosition,
         AmmAddLiquidity, AmmRemoveLiquidity, AmmCreatePool, AmmExecuteSwap, AmmPoolInfo, AmmPositionInfo,
         AmmPositionsOwned, AmmQuoteSwap, AmmQuoteLiquidity, ByConnector, ByChain
<1> QED BY <1>6, <1>7, <1>8

\* A step of a save either leaves the lists, or replaces one.
Within(r) ==
  /\ \/ pc'[r] \in SavingSteps \cup {"done"}
     \/ pc'[r] = next[r] /\ ListOf(target[r]) = "tokens" /\ op[r] \in PoolOps
  /\ answer'[r] = "ok" => answer[r] = "ok"
  /\ UNCHANGED <<held, target, list, next, expected, clash>>
  /\ \A d \in {"tokens", "pools"} : entry'[d] = entry[d]
Replaces(r) ==
  /\ pc'[r] = next[r] /\ answer'[r] = IF next[r] = "done" THEN "ok" ELSE answer[r]
  /\ UNCHANGED <<held, target, list, next, clash>>
  /\ expected' = [expected EXCEPT ![ListOf(target[r])] = list[r]]
  /\ entry'[ListOf(target[r])] # NoFile
  /\ \A d \in {"tokens", "pools"} \ {ListOf(target[r])} : entry'[d] = entry[d]

LEMMA WritesAreSo ==
  ASSUME FilesInv, NEW r \in Requests, op[r] \in ListUsers, SaverOf(r), Writes(r)
  PROVE  pc[r] \in SavingSteps /\ (Within(r) \/ Replaces(r))
<1>1. pc[r] \in SavingSteps BY DEF Writes, Open, Write, Rename, WriteFails, At, SavingSteps
<1>2. ListOf(target[r]) \in {"tokens", "pools"} BY <1>1 DEF SaverOf, ListUsers
<1>3. FilesTyped BY DEF FilesInv
<1>4. target[r] \in Names /\ target[r] \notin Lists
  <2>1. target[r] \notin DOMAIN Temp BY <1>1 DEF FilesInv, DescriptorInv
  <2> QED BY <2>1, <1>2, <1>3, NamesOfLists DEF FilesTyped
<1>5. "tokens" \in Lists \cap Names /\ "pools" \in Lists \cap Names BY NamesOfLists
<1>6. CASE Open(r) \/ Write(r)
  <2>1. /\ pc'[r] \in {"write", "rename"} /\ UNCHANGED <<held, target, list, next, expected, clash>>
        /\ \A n \in Names \ {target[r]} : entry'[n] = entry[n]
    BY <1>3, <1>4, <1>6 DEF Open, Write, FilesTyped
  <2>2. answer'[r] = answer[r]
    <3>1. Write(r) => answer' = IF pc'[r] = "done" THEN [answer EXCEPT ![r] = "ok"] ELSE answer BY DEF Write
    <3>2. Open(r) => answer' = answer BY DEF Open
    <3> QED BY <3>1, <3>2, <2>1, <1>6
  <2>3. "tokens" \in Names \ {target[r]} /\ "pools" \in Names \ {target[r]} BY <1>4, <1>5
  <2>4. \A d \in {"tokens", "pools"} : entry'[d] = entry[d] BY <2>1, <2>3
  <2>5. pc'[r] \in SavingSteps BY <2>1 DEF SavingSteps
  <2>6. Within(r) BY <2>1, <2>2, <2>4, <2>5 DEF Within
  <2> QED BY <2>6, <1>1
<1>7. ASSUME NEW s \in Answers \ {"ok"}, NEW swallows, swallows = (ListOf(target[r]) = "tokens" /\ op[r] \in PoolOps),
             Rename(r, swallows, s) \/ WriteFails(r, swallows, s)
      PROVE  Within(r) \/ Replaces(r)
  <2>1. CASE Throws(r, swallows, s) /\ UNCHANGED <<held, target, list, next, expected, clash>>
             /\ \A d \in {"tokens", "pools"} : entry'[d] = entry[d]
    BY <2>1, <1>3, <1>7 DEF Throws, Answer, FilesTyped, Within
  <2>2. CASE WriteFails(r, swallows, s)
    BY <2>1, <2>2, <1>3, <1>4, <1>5 DEF WriteFails, FilesTyped
  <2>3. CASE Rename(r, swallows, s)
    <3>1. CASE entry[target[r]] = NoFile BY <3>1, <2>1, <2>3 DEF Rename
    <3>2. CASE entry[target[r]] # NoFile
      BY <3>2, <2>3, <1>2, <1>3, <1>4, <1>5 DEF Rename, Changed, FilesTyped, Replaces
    <3> QED BY <3>1, <3>2
  <2> QED BY <2>2, <2>3, <1>7
<1> QED BY <1>1, <1>6, <1>7 DEF Writes

\* What the invariant needs of a step of one request.
ListMove(m) ==
  /\ UNCHANGED <<op, arg, up>> /\ pc[m] # "done" /\ clash \subseteq clash'
  /\ \A q \in Others(m) : op[q] \notin InstanceOps =>
       /\ pc'[q] = pc[q] /\ held'[q] = held[q] /\ answer'[q] = answer[q]
       /\ target'[q] = target[q] /\ list'[q] = list[q] /\ next'[q] = next[q]
  /\ \A d \in {"tokens", "pools"} : expected'[d] = expected[d] \/ (Saving(m, d) /\ expected'[d] = list[m])
  /\ entry["pools"] # NoFile => entry'["pools"] # NoFile
  /\ StageOf(m)' /\ FlagOf(m)' /\ SaverOf(m)' /\ ToldOf(m)'
  /\ op[m] \in TokenOps \cup PoolOps /\ NotBegun(m)' => NotBegun(m)
  /\ \A r \in Others(m) :
       /\ NotBegun(m)' \/ ~Touches(m, r)
       /\ Undisturbed("tokens")' /\ Saving(m, "tokens")' /\ op[r] \in TokenChanges /\ TokensKept(r)
       => TokenIn(r, list'[m])
  /\ \A r \in Others(m) :
       /\ NotBegun(m)' \/ ~Touches(m, r)
       /\ Undisturbed("pools")' /\ Saving(m, "pools")' /\ op[r] \in PoolChanges /\ PoolsKept(r)
       => PoolIn(r, list'[m])
  /\ answer'[m] = "ok" /\ op[m] \in TokenChanges \cup PoolChanges =>
       pc[m] \in SavingSteps /\ Replaces(m) /\ next[m] = "done"

LEMMA ListOpsAre ==
  ASSUME NEW o
  PROVE  /\ o \in ListUsers \cup WalletOps => o \notin InstanceOps
         /\ o \in TokenChanges => o \in TokenOps /\ o \notin PoolOps \cup PoolChanges
         /\ o \in PoolChanges => o \in PoolOps /\ o \notin TokenOps \cup TokenChanges
         /\ o \in TokenOps => o \notin PoolUsers \cup WalletOps
         /\ o \in WalletOps => o \notin ListUsers
         /\ o \in TokenOps \cup PoolOps => o \in ListUsers
         /\ o \in Savers <=> o \in ListUsers \cup WalletOps
<1>1. TokenChanges \subseteq TokenOps /\ PoolChanges \subseteq PoolOps
  BY DEF TokenChanges, PoolChanges, TokenOps, PoolOps
<1>2. SwapOps \subseteq TradeOps BY DEF TradeOps
<1> QED BY <1>1, <1>2, FamiliesAreApart DEF ListUsers, PoolUsers, Savers

LEMMA ListMoveKeeps ==
  ASSUME FilesInv, FilesInv', ListsInv, NEW m \in Requests, ListMove(m)
  PROVE  ListsInv'
<1>1. /\ op' = op /\ arg' = arg /\ up' = up /\ pc[m] # "done" /\ clash \subseteq clash'
      /\ \A q \in Others(m) : op[q] \notin InstanceOps =>
           /\ pc'[q] = pc[q] /\ held'[q] = held[q] /\ answer'[q] = answer[q]
           /\ target'[q] = target[q] /\ list'[q] = list[q] /\ next'[q] = next[q]
      /\ \A d \in {"tokens", "pools"} : expected'[d] = expected[d] \/ (Saving(m, d) /\ expected'[d] = list[m])
      /\ entry["pools"] # NoFile => entry'["pools"] # NoFile
      /\ \A d : Undisturbed(d)' => Undisturbed(d) /\ d \notin clash'
  BY DEF ListMove, Undisturbed
<1>2. /\ \A q, l : TokenIn(q, l)' <=> TokenIn(q, l)
      /\ \A q, l : PoolIn(q, l)' <=> PoolIn(q, l)
      /\ \A q, r : Touches(q, r)' <=> Touches(q, r)
  BY <1>1 DEF TokenIn, PoolIn, Touches, SameAddress
<1>3. \A q \in Requests :
        /\ op[q] \in ListUsers \cup WalletOps => op[q] \notin InstanceOps
        /\ op[q] \in TokenChanges => op[q] \in TokenOps /\ op[q] \notin PoolOps \cup PoolChanges
        /\ op[q] \in PoolChanges => op[q] \in PoolOps /\ op[q] \notin TokenOps \cup TokenChanges
        /\ op[q] \in TokenOps \cup PoolOps => op[q] \in ListUsers
        /\ op[q] \in PoolUsers => op[q] \in ListUsers
  BY ListOpsAre DEF ListUsers
<1>4. \A d : \A q \in Others(m) : Saving(q, d)' => Saving(q, d) /\ list'[q] = list[q] /\ op[q] \in Savers
  <2>1. \A q \in Requests : pc'[q] \in SavingSteps => op'[q] \in Savers BY DEF FilesInv, LifeInv
  <2> QED BY <2>1, <1>1, ListOpsAre DEF Saving, SavingSteps, Others
<1>5. \A q \in Others(m) : StageOf(q)' /\ FlagOf(q)' /\ SaverOf(q)' /\ ToldOf(q)'
  <2> SUFFICES ASSUME NEW q \in Others(m) PROVE StageOf(q)' /\ FlagOf(q)' /\ SaverOf(q)' /\ ToldOf(q)' OBVIOUS
  <2>1. q \in Requests /\ q # m BY DEF Others
  <2>2. StageOf(q) /\ FlagOf(q) /\ SaverOf(q) /\ ToldOf(q) BY <2>1 DEF ListsInv
  <2>3. StageOf(q)' /\ FlagOf(q)' /\ ToldOf(q)' BY <1>1, <1>3, <2>1, <2>2 DEF StageOf, FlagOf, ToldOf, Staged
  <2>4. SaverOf(q)'
    <3> SUFFICES ASSUME pc'[q] \in SavingSteps
                 PROVE  SaverOf(q)'
      BY DEF SaverOf
    <3>1. op[q] \in ListUsers \cup WalletOps
      <4>1. op'[q] \in Savers BY <2>1 DEF FilesInv, LifeInv
      <4> QED BY <4>1, <1>1, ListOpsAre
    <3>2. /\ pc'[q] = pc[q] /\ held'[q] = held[q] /\ target'[q] = target[q] /\ list'[q] = list[q] /\ next'[q] = next[q]
      BY <3>1, <1>1, ListOpsAre
    <3> QED BY <1>1, <1>2, <2>2, <3>2 DEF SaverOf
  <2> QED BY <2>3, <2>4
<1>6. \A r \in Requests : NobodyElse(r)' => NobodyElse(r)
  <2> SUFFICES ASSUME NEW r \in Requests, NobodyElse(r)', NEW q \in Others(r), Touches(q, r)
               PROVE  NotBegun(q)
    BY DEF NobodyElse
  <2>1. NotBegun(q)' BY <1>2 DEF NobodyElse, Others
  <2>2. q \in Requests /\ op[q] \in TokenOps \cup PoolOps BY DEF Touches, Others, TokenOps, PoolOps
  <2>3. CASE q = m BY <2>1, <2>2, <2>3 DEF ListMove
  <2>4. CASE q # m BY <2>1, <2>2, <2>4, <1>1, <1>3 DEF NotBegun, Others
  <2> QED BY <2>3, <2>4
<1>7. ASSUME NEW r \in Others(m)
      PROVE  KeptOf(r)'
  <2> SUFFICES ASSUME answer'[r] = "ok", NobodyElse(r)', op[r] \in TokenChanges \cup PoolChanges
               PROVE  /\ op[r] \in TokenChanges => TokensKept(r)'
                      /\ op[r] \in PoolChanges => PoolsKept(r)'
    BY <1>1 DEF KeptOf
  <2>1. r \in Requests /\ r # m /\ op[r] \notin InstanceOps /\ answer[r] = "ok" BY <1>1, <1>3 DEF Others
  <2>2. KeptOf(r) /\ NobodyElse(r) BY <2>1, <1>6 DEF ListsInv
  <2>3. NotBegun(m)' \/ ~Touches(m, r) BY <2>1, <1>2 DEF NobodyElse, Others
  <2>4. ASSUME op[r] \in TokenChanges, Undisturbed("tokens")' PROVE TokensKept(r)'
    <3>1. TokensKept(r) /\ Undisturbed("tokens") BY <2>1, <2>2, <2>4, <1>1 DEF KeptOf
    <3>2. TokenIn(r, expected["tokens"]) /\ \A q \in Requests : Saving(q, "tokens") => TokenIn(r, list[q])
      BY <3>1 DEF TokensKept
    <3>3. TokenIn(r, expected'["tokens"]) BY <3>2, <1>1
    <3>4. ASSUME NEW q \in Requests, Saving(q, "tokens")' PROVE TokenIn(r, list'[q])
      <4>1. CASE q = m BY <4>1, <3>1, <3>4, <2>3, <2>4 DEF ListMove
      <4>2. CASE q # m BY <4>2, <3>2, <3>4, <1>4 DEF Others
      <4> QED BY <4>1, <4>2
    <3> QED BY <3>3, <3>4, <1>2 DEF TokensKept
  <2>5. ASSUME op[r] \in PoolChanges, Undisturbed("pools")' PROVE PoolsKept(r)'
    <3>1. PoolsKept(r) /\ Undisturbed("pools") BY <2>1, <2>2, <2>5, <1>1 DEF KeptOf
    <3>2. /\ PoolIn(r, expected["pools"]) /\ entry["pools"] # NoFile
          /\ \A q \in Requests : Saving(q, "pools") => PoolIn(r, list[q])
      BY <3>1 DEF PoolsKept
    <3>3. PoolIn(r, expected'["pools"]) /\ entry'["pools"] # NoFile BY <3>2, <1>1
    <3>4. ASSUME NEW q \in Requests, Saving(q, "pools")' PROVE PoolIn(r, list'[q])
      <4>1. CASE q = m BY <4>1, <3>1, <3>4, <2>3, <2>5 DEF ListMove
      <4>2. CASE q # m BY <4>2, <3>2, <3>4, <1>4 DEF Others
      <4> QED BY <4>1, <4>2
    <3> QED BY <3>3, <3>4, <1>2 DEF PoolsKept
  <2>6. op[r] \in TokenChanges /\ ~Undisturbed("tokens")' => TokensKept(r)' BY DEF TokensKept
  <2>7. op[r] \in PoolChanges /\ ~Undisturbed("pools")' => PoolsKept(r)' BY DEF PoolsKept
  <2> QED BY <2>4, <2>5, <2>6, <2>7
<1>8. KeptOf(m)'
  <2> SUFFICES ASSUME answer'[m] = "ok", op[m] \in TokenChanges \cup PoolChanges
               PROVE  /\ op[m] \in TokenChanges => TokensKept(m)'
                      /\ op[m] \in PoolChanges => PoolsKept(m)'
    BY <1>1 DEF KeptOf
  <2>0. PICK d : d = ListOf(target[m]) OBVIOUS
  <2>1. pc[m] \in SavingSteps /\ Replaces(m) /\ next[m] = "done" BY DEF ListMove
  <2>2. SaverOf(m) BY DEF ListsInv
  <2>3. /\ op[m] \in TokenChanges => d = "tokens" /\ TokenIn(m, list[m])
        /\ op[m] \in PoolChanges => d = "pools" /\ PoolIn(m, list[m])
    BY <2>0, <2>1, <2>2, <1>3 DEF SaverOf, PoolUsers
  <2>4. /\ expected'[d] = list[m] /\ entry'[d] # NoFile /\ pc'[m] = "done" /\ d \in Lists
    BY <2>0, <2>1, <2>3, NamesOfLists DEF Replaces, FilesInv, FilesTyped
  <2>5. d \notin clash' => \A q \in Requests : ~Saving(q, d)'
    <3> SUFFICES ASSUME d \notin clash', NEW q \in Requests, Saving(q, d)' PROVE FALSE OBVIOUS
    <3>1. q # m BY <2>4 DEF Saving
    <3>2. Saving(q, d) BY <3>1, <1>4 DEF Others
    <3>3. Saving(m, d) BY <2>0, <2>1 DEF Saving, SavingSteps
    <3> QED BY <3>1, <3>2, <3>3, <2>4, <1>1 DEF FilesInv, AloneInv
  <2>6. op[m] \in TokenChanges => TokensKept(m)' BY <2>3, <2>4, <2>5, <1>1, <1>2 DEF TokensKept
  <2>7. op[m] \in PoolChanges => PoolsKept(m)' BY <2>3, <2>4, <2>5, <1>1, <1>2 DEF PoolsKept
  <2> QED BY <2>6, <2>7
<1>9. \A r \in Requests : r = m \/ r \in Others(m) BY DEF Others
<1>10. StageOf(m)' /\ FlagOf(m)' /\ SaverOf(m)' /\ ToldOf(m)' BY DEF ListMove
<1> QED BY <1>5, <1>7, <1>8, <1>9, <1>10 DEF ListsInv

\* What was read of a list is what the changes made of it when it is saved, unless it is
\* marked as stale then.
LEMMA ReadAsExpected ==
  ASSUME FilesInv, NEW m \in Requests, NEW d \in {"tokens", "pools"}, NEW l, NEW n, NEW h, Save(m, d, l, n, h),
         Undisturbed(d)'
  PROVE  /\ Undisturbed(d)
         /\ HasWhole(m) => held[m].read.list = expected[d]
         /\ held[m].read = Absent => entry[d] = NoFile
<1>1. clash' = clash \cup Overlapping(m, d) \cup Stale(m, d) BY DEF Save
<1>2. Undisturbed(d) /\ d \notin clash /\ StaleMark[d] \notin Stale(m, d) BY <1>1 DEF Undisturbed
<1>3. held[m].read = ContentOf(d) BY <1>2, NamesOfLists DEF Stale
<1>4. entry[d] = NoFile \/ data[entry[d]] = Whole(expected[d]) BY <1>2, NamesOfLists DEF FilesInv, SavedInv
<1>5. /\ Absent.state = "absent"
      /\ Whole(expected[d]).state = "whole" /\ Whole(expected[d]).list = expected[d]
  BY DEF Absent, Whole
<1>6. CASE entry[d] = NoFile
  <2>1. held[m].read.state = "absent" BY <1>3, <1>5, <1>6 DEF ContentOf
  <2> QED BY <2>1, <1>2, <1>6 DEF HasWhole
<1>7. CASE entry[d] # NoFile
  <2>1. held[m].read = Whole(expected[d]) BY <1>3, <1>4, <1>7 DEF ContentOf
  <2>2. held[m].read # Absent BY <2>1, <1>5
  <2> QED BY <2>1, <2>2, <1>2, <1>5
<1> QED BY <1>6, <1>7

LEMMA SaveIs ==
  ASSUME FilesInv, NEW m \in Requests, NEW d \in {"tokens", "pools"}, NEW l, NEW n, NEW h, Save(m, d, l, n, h)
  PROVE  /\ pc'[m] = "open" /\ ListOf(target'[m]) = d /\ list'[m] = l /\ next'[m] = n /\ held'[m] = h
         /\ UNCHANGED <<answer, entry, expected>> /\ clash \subseteq clash'
BY NamesOfLists DEF Save, FilesInv, FilesTyped

LEMMA BeginningsMove ==
  ASSUME FilesInv, ListsInv, NEW m \in Requests, op[m] \in ListUsers, OwnStep(m), up,
         NEW d \in {"tokens", "pools"}, NEW l, NEW n, NEW h, Save(m, d, l, n, h), pc[m] \notin SavingSteps,
         SaverOf(m)', StageOf(m)', FlagOf(m)',
         op[m] \in PoolOps /\ h.flag /\ n = "start" => pc[m] = "start",
         \A r \in Others(m) :
           /\ h.flag \/ ~Touches(m, r)
           /\ d = "tokens" /\ Undisturbed("tokens")' /\ op[r] \in TokenChanges /\ TokensKept(r)
           => TokenIn(r, l),
         \A r \in Others(m) :
           /\ h.flag \/ ~Touches(m, r)
           /\ d = "pools" /\ Undisturbed("pools")' /\ op[r] \in PoolChanges /\ PoolsKept(r)
           => PoolIn(r, l),
         ~h.flag \/ d = "pools"
  PROVE  ListMove(m)
<1>1. /\ UNCHANGED <<op, arg, up>> /\ pc[m] # "done"
      /\ \A q \in Others(m) : /\ pc'[q] = pc[q] /\ held'[q] = held[q] /\ answer'[q] = answer[q]
                              /\ target'[q] = target[q] /\ list'[q] = list[q] /\ next'[q] = next[q]
  BY OthersStay DEF Others
<1>2. /\ pc'[m] = "open" /\ ListOf(target'[m]) = d /\ list'[m] = l /\ next'[m] = n /\ held'[m] = h
      /\ UNCHANGED <<answer, entry, expected>> /\ clash \subseteq clash'
  BY SaveIs
<1>3. ToldOf(m) BY DEF ListsInv
<1>4. \A c : Saving(m, c)' => c = d BY <1>2 DEF Saving
<1>5. Saving(m, d)' BY <1>2 DEF Saving
<1>6. NotBegun(m)' => op[m] \in PoolOps /\ h.flag /\ n = "start" BY <1>1, <1>2 DEF NotBegun
<1>7. NotBegun(m)' => NotBegun(m) BY <1>6 DEF NotBegun
<1>9. ToldOf(m)' /\ (op[m] \in TokenChanges \cup PoolChanges => answer'[m] # "ok") BY <1>1, <1>2, <1>3 DEF ToldOf
<1> QED BY <1>1, <1>2, <1>4, <1>6, <1>7, <1>9 DEF ListMove

LEMMA RestsMoves ==
  ASSUME FilesInv, ListsInv, NEW m \in Requests, op[m] \in ListUsers, OwnStep(m), up, Rests(m)
  PROVE  ListMove(m)
<1>1. /\ UNCHANGED <<op, arg, up>> /\ pc[m] # "done"
      /\ \A q \in Others(m) : /\ pc'[q] = pc[q] /\ held'[q] = held[q] /\ answer'[q] = answer[q]
                              /\ target'[q] = target[q] /\ list'[q] = list[q] /\ next'[q] = next[q]
  BY OthersStay DEF Others
<1>2. ToldOf(m) BY DEF ListsInv
<1>3. /\ pc'[m] \notin SavingSteps /\ (pc'[m] = "start" => pc[m] = "start")
      /\ held'[m].flag => held'[m] = held[m] /\ pc'[m] = "done"
      /\ op[m] \in PoolOps => Staged(m, pc'[m])
      /\ op[m] \in TokenChanges \cup PoolChanges => answer'[m] # "ok"
      /\ UNCHANGED <<entry, expected, clash>>
  BY <1>1, <1>2 DEF Rests, ToldOf
<1>4. StageOf(m)'
  <2>1. \A s : Staged(m, s)' <=> Staged(m, s) BY <1>1 DEF Staged
  <2>2. \A s \in PoolSteps : s # "done" BY DEF PoolSteps
  <2> QED BY <2>1, <2>2, <1>1, <1>3 DEF StageOf
<1>5. SaverOf(m)' /\ ToldOf(m)' BY <1>1, <1>3 DEF SaverOf, ToldOf
<1>6. \A d : ~Saving(m, d)' BY <1>3 DEF Saving, SavingSteps
<1>7. NotBegun(m)' => NotBegun(m) BY <1>3 DEF NotBegun
<1>8. FlagOf(m)' BY <1>1, <1>3 DEF FlagOf, ListsInv
<1> QED BY <1>1, <1>3, <1>4, <1>5, <1>6, <1>7, <1>8 DEF ListMove

LEMMA TemplateMoves ==
  ASSUME FilesInv, ListsInv, NEW m \in Requests, op[m] \in ListUsers, OwnStep(m), up, SavesTemplate(m)
  PROVE  ListMove(m)
<1> DEFINE h == [held[m] EXCEPT !.flag = TRUE, !.read = Whole(Template)]
<1>1. /\ op[m] \in PoolUsers /\ pc[m] \notin SavingSteps \cup {"token", "tokenAdd", "done"}
      /\ Save(m, "pools", Template, pc[m], h) /\ held[m].read = Absent /\ h.flag /\ h.read = Whole(Template)
  BY DEF SavesTemplate, Missing, FilesInv, FilesTyped, Holds
<1> HIDE DEF h
<1>2. UNCHANGED <<op, arg>> BY OthersStay
<1>3. /\ pc'[m] = "open" /\ ListOf(target'[m]) = "pools" /\ list'[m] = Template /\ next'[m] = pc[m] /\ held'[m] = h
      /\ entry' = entry
  BY <1>1, NamesOfLists DEF Save, FilesInv, FilesTyped
<1>4. op[m] \notin TokenOps \cup WalletOps \cup TokenChanges BY <1>1, ListOpsAre DEF ListUsers
<1>5. SaverOf(m)' BY <1>1, <1>2, <1>3, <1>4 DEF SaverOf
<1>6. StageOf(m)'
  <2>1. \A s : Staged(m, s)' <=> Staged(m, s) BY <1>2 DEF Staged
  <2>2. StageOf(m) BY DEF ListsInv
  <2> QED BY <2>1, <2>2, <1>1, <1>2, <1>3 DEF StageOf, PoolSteps
<1>7. FlagOf(m)' BY <1>1, <1>2, <1>3 DEF FlagOf
<1>8. \A r : PoolsKept(r) /\ Undisturbed("pools")' => FALSE BY <1>1, ReadAsExpected DEF PoolsKept
<1> QED BY <1>1, <1>5, <1>6, <1>7, <1>8, BeginningsMove

LEMMA TokensMove ==
  ASSUME FilesInv, ListsInv, NEW m \in Requests, op[m] \in ListUsers, OwnStep(m), up, SavesTokens(m)
  PROVE  ListMove(m)
<1>1. PICK l, n, h :
        /\ Save(m, "tokens", l, n, h) /\ ~h.flag
        /\ \/ /\ op[m] \in TokenOps /\ n = "done"
              /\ op[m] \in TokenChanges => TokenIn(m, l)
              /\ \A x \in TokensRead(m) : x.symbol # arg[m].symbol /\ x.address # arg[m].address => x \in l
              /\ l \subseteq TokensRead(m) \cup {arg[m]}
           \/ op[m] = "find and save pool" /\ n = "token"
  BY DEF SavesTokens
<1>2. UNCHANGED <<op, arg>> BY OthersStay
<1>3. /\ pc'[m] = "open" /\ ListOf(target'[m]) = "tokens" /\ list'[m] = l /\ next'[m] = n /\ held'[m] = h
  BY <1>1, SaveIs
<1>4. /\ op[m] \in TokenOps => op[m] \notin PoolUsers \cup WalletOps \cup PoolOps \cup PoolChanges
      /\ op[m] = "find and save pool" => op[m] \in PoolChanges /\ op[m] \notin TokenOps \cup WalletOps \cup TokenChanges
  BY ListOpsAre DEF PoolUsers, PoolChanges
<1>5. SaverOf(m)'
  <2>1. op[m] \in TokenChanges => TokenIn(m, l) BY <1>1, <1>4
  <2>2. op[m] \in TokenChanges => TokenIn(m, list[m])' BY <2>1, <1>2, <1>3 DEF TokenIn, SameAddress
  <2> QED BY <2>2, <1>1, <1>2, <1>3, <1>4 DEF SaverOf
<1>6. StageOf(m)' /\ FlagOf(m)' BY <1>1, <1>2, <1>3, <1>4 DEF StageOf, Staged, FlagOf
<1>7. ASSUME NEW r \in Others(m), ~Touches(m, r), Undisturbed("tokens")', op[r] \in TokenChanges, TokensKept(r)
      PROVE  TokenIn(r, l)
  <2>1. op[r] \in TokenOps BY <1>7, ListOpsAre
  <2>2. /\ op[m] \in TokenOps => arg[m].symbol # arg[r].symbol /\ arg[m].address # arg[r].address
        /\ op[m] # "find and save pool"
    BY <2>1, <1>7 DEF Touches
  <2>3. TokenIn(r, TokensRead(m))
    <3>1. Undisturbed("tokens") /\ TokensRead(m) = expected["tokens"]
      BY <1>1, <1>7, ReadAsExpected DEF SavesTokens, TokensRead
    <3> QED BY <3>1, <1>7 DEF TokensKept
  <2> QED BY <2>2, <2>3, <1>1 DEF TokenIn, SameAddress
<1>8. pc[m] \notin SavingSteps BY DEF SavesTokens
<1>9. \A r \in Others(m) :
         /\ h.flag \/ ~Touches(m, r)
         /\ "tokens" = "tokens" /\ Undisturbed("tokens")' /\ op[r] \in TokenChanges /\ TokensKept(r)
         => TokenIn(r, l)
  BY <1>1, <1>7
<1>10. \A r \in Others(m) :
         /\ h.flag \/ ~Touches(m, r)
         /\ "tokens" = "pools" /\ Undisturbed("pools")' /\ op[r] \in PoolChanges /\ PoolsKept(r)
         => PoolIn(r, l)
  OBVIOUS
<1>11. op[m] \in PoolOps /\ h.flag /\ n = "start" => pc[m] = "start" BY <1>1
<1>12. Save(m, "tokens", l, n, h) /\ ~h.flag BY <1>1
<1> QED BY <1>5, <1>6, <1>8, <1>9, <1>10, <1>11, <1>12, BeginningsMove

LEMMA PoolsMove ==
  ASSUME FilesInv, ListsInv, NEW m \in Requests, op[m] \in ListUsers, OwnStep(m), up, SavesPools(m)
  PROVE  ListMove(m)
<1>1. PICK l, n :
        /\ Save(m, "pools", l, n, Nothing) /\ n \in {"add", "done"}
        /\ op[m] \in PoolChanges
        /\ n = "done" => PoolIn(m, l)
        /\ n = "add" => op[m] = "add pool"
        /\ op[m] # "add pool" => \A x : x.address # arg[m].address => (x \in l <=> x \in ThePools(m))
  BY DEF SavesPools
<1>2. UNCHANGED <<op, arg>> /\ pc[m] # "done" BY OthersStay
<1>3. /\ pc'[m] = "open" /\ ListOf(target'[m]) = "pools" /\ list'[m] = l /\ next'[m] = n /\ held'[m] = Nothing
      /\ ~Nothing.flag
  <2>1. Save(m, "pools", l, n, Nothing) BY <1>1
  <2>2. ~Nothing.flag BY DEF Nothing
  <2> QED BY <2>1, <2>2, SaveIs
<1>4. op[m] \in PoolUsers /\ op[m] \in PoolOps /\ op[m] \notin TokenOps \cup WalletOps \cup TokenChanges
  BY <1>1, ListOpsAre DEF PoolUsers
<1>5. SaverOf(m)'
  <2>1. n = "done" => PoolIn(m, l) BY <1>1
  <2>2. next'[m] = "done" => PoolIn(m, list[m])' BY <2>1, <1>2, <1>3 DEF PoolIn, SameAddress
  <2> QED BY <2>2, <1>1, <1>2, <1>3, <1>4 DEF SaverOf
<1>6. StageOf(m)' /\ FlagOf(m)' BY <1>1, <1>2, <1>3, <1>4 DEF StageOf, Staged, PoolSteps, FlagOf
<1>7. ASSUME NEW r \in Others(m), ~Touches(m, r), Undisturbed("pools")', op[r] \in PoolChanges, PoolsKept(r)
      PROVE  PoolIn(r, l)
  <2>1. op[r] \notin TokenOps BY <1>7, ListOpsAre
  <2>2. op[m] # "add pool" /\ arg[m].address # arg[r].address BY <2>1, <1>4, <1>7 DEF Touches
  <2>3. /\ Undisturbed("pools") /\ (HasWhole(m) => held[m].read.list = expected["pools"])
        /\ held[m].read = Absent => entry["pools"] = NoFile
    BY <1>1, <1>7, ReadAsExpected
  <2>8. ThePools(m) = expected["pools"]
    BY <2>3, <1>7 DEF PoolsKept, SavesPools, Loaded, Readable, ThePools
  <2>4. PoolIn(r, ThePools(m)) BY <2>3, <2>8, <1>7 DEF PoolsKept
  <2>5. \A x : x.address = arg[r].address => (x \in l <=> x \in ThePools(m)) BY <2>2, <1>1
  <2>6. CASE op[r] = "remove pool" BY <2>4, <2>5, <2>6, <1>1 DEF PoolIn, SameAddress
  <2>7. CASE op[r] # "remove pool" BY <2>4, <2>5, <2>7 DEF PoolIn
  <2> QED BY <2>6, <2>7
<1>8. pc[m] \notin SavingSteps BY DEF SavesPools
<1>9. \A r \in Others(m) :
         /\ Nothing.flag \/ ~Touches(m, r)
         /\ "pools" = "tokens" /\ Undisturbed("tokens")' /\ op[r] \in TokenChanges /\ TokensKept(r)
         => TokenIn(r, l)
  OBVIOUS
<1>10. \A r \in Others(m) :
         /\ Nothing.flag \/ ~Touches(m, r)
         /\ "pools" = "pools" /\ Undisturbed("pools")' /\ op[r] \in PoolChanges /\ PoolsKept(r)
         => PoolIn(r, l)
  BY <1>3, <1>7
<1>11. op[m] \in PoolOps /\ Nothing.flag /\ n = "start" => pc[m] = "start" BY <1>3
<1>12. Save(m, "pools", l, n, Nothing) /\ ~Nothing.flag BY <1>1, <1>3
<1> QED BY <1>5, <1>6, <1>8, <1>9, <1>10, <1>11, <1>12, BeginningsMove

LEMMA WritesMove ==
  ASSUME FilesInv, ListsInv, NEW m \in Requests, op[m] \in ListUsers, OwnStep(m), up, Writes(m)
  PROVE  ListMove(m)
<1>1. /\ UNCHANGED <<op, arg, up>> /\ pc[m] # "done"
      /\ \A q \in Others(m) : /\ pc'[q] = pc[q] /\ held'[q] = held[q] /\ answer'[q] = answer[q]
                              /\ target'[q] = target[q] /\ list'[q] = list[q] /\ next'[q] = next[q]
  BY OthersStay DEF Others
<1>2. StageOf(m) /\ FlagOf(m) /\ SaverOf(m) /\ ToldOf(m) BY DEF ListsInv
<1>3. pc[m] \in SavingSteps /\ (Within(m) \/ Replaces(m)) BY <1>2, WritesAreSo
<1>4. /\ UNCHANGED <<held, target, list, next, clash>> /\ pc'[m] \in SavingSteps \cup {"done", next[m]}
      /\ pc'[m] \in SavingSteps => \A d \in {"tokens", "pools"} : entry'[d] = entry[d]
      /\ next[m] \notin SavingSteps
  BY <1>3, StepsAreApart DEF Within, Replaces, FilesInv, LifeInv, SavingSteps
<1>5. /\ ListOf(target[m]) \in {"tokens", "pools"}
      /\ op[m] \in TokenOps => next[m] = "done"
      /\ op[m] \in PoolUsers /\ held[m].flag => ListOf(target[m]) = "pools" /\ list[m] = Template
      /\ op[m] \in PoolUsers /\ ~held[m].flag => next[m] # "start"
      /\ op[m] \in PoolUsers /\ ListOf(target[m]) = "tokens" => next[m] # "start"
  BY <1>2, <1>3 DEF SaverOf, ListUsers
<1>6. StageOf(m)'
  <2>1. \A s : Staged(m, s)' <=> Staged(m, s) BY <1>1 DEF Staged
  <2>2. "done" \notin PoolSteps /\ PoolSteps \cap SavingSteps = {} BY DEF PoolSteps, SavingSteps
  <2> QED BY <2>1, <2>2, <1>1, <1>2, <1>3, <1>4 DEF StageOf
<1>7. SaverOf(m)'
  <2>1. \A x : (TokenIn(m, x)' <=> TokenIn(m, x)) /\ (PoolIn(m, x)' <=> PoolIn(m, x))
    BY <1>1 DEF TokenIn, PoolIn, SameAddress
  <2> QED BY <2>1, <1>1, <1>2, <1>3, <1>4 DEF SaverOf
<1>8. op[m] \in TokenChanges \cup PoolChanges /\ answer'[m] = "ok" => Replaces(m) /\ next[m] = "done"
  BY <1>1, <1>2, <1>3 DEF ToldOf, Within, Replaces
<1>9. ToldOf(m)' BY <1>1, <1>8 DEF ToldOf, Replaces
<1>10. \A d : Saving(m, d)' => Saving(m, d) BY <1>3, <1>4 DEF Saving, SavingSteps
<1>11. op[m] \in TokenOps \cup PoolOps /\ NotBegun(m)' => NotBegun(m)
  <2> SUFFICES ASSUME op[m] \in TokenOps \cup PoolOps, NotBegun(m)' PROVE NotBegun(m) OBVIOUS
  <2>1. op[m] \in PoolUsers \/ op[m] \in TokenOps BY DEF PoolUsers
  <2>2. CASE pc'[m] = "start"
    <3>1. next[m] = "start" BY <2>2, <1>4 DEF SavingSteps
    <3> QED BY <3>1, <2>1, <1>3, <1>5 DEF NotBegun
  <2>3. CASE pc'[m] # "start" BY <2>3, <1>1, <1>3, <1>4 DEF NotBegun
  <2> QED BY <2>2, <2>3
<1>12. \A d \in {"tokens", "pools"} : expected'[d] = expected[d] \/ (Saving(m, d) /\ expected'[d] = list[m])
  <2>1. Within(m) => expected' = expected BY DEF Within
  <2>2. expected \in [Lists -> SUBSET Elements] /\ {"tokens", "pools"} \subseteq Lists BY NamesOfLists DEF FilesInv, FilesTyped
  <2> QED BY <2>1, <2>2, <1>3, <1>5 DEF Replaces, Saving, SavingSteps
<1>13. entry["pools"] # NoFile => entry'["pools"] # NoFile BY <1>3, <1>5 DEF Within, Replaces
<1>14. FlagOf(m)' BY <1>1, <1>2, <1>4 DEF FlagOf
<1>15. \A r \in Others(m) :
         /\ Undisturbed("tokens")' /\ Saving(m, "tokens")' /\ TokensKept(r) => TokenIn(r, list'[m])
         /\ Undisturbed("pools")' /\ Saving(m, "pools")' /\ PoolsKept(r) => PoolIn(r, list'[m])
  BY <1>4, <1>10 DEF TokensKept, PoolsKept, Undisturbed
<1>16. clash \subseteq clash' BY <1>4
<1> QED BY <1>1, <1>3, <1>6, <1>7, <1>8, <1>9, <1>11, <1>12, <1>13, <1>14, <1>15, <1>16 DEF ListMove

LEMMA ListStepMoves ==
  ASSUME FilesInv, ListsInv, NEW m \in Requests, op[m] \in ListUsers, OwnStep(m), ListStep(m)
  PROVE  ListMove(m)
BY RestsMoves, TemplateMoves, TokensMove, PoolsMove, WritesMove DEF ListStep

\* The other requests leave the lists alone.
LEMMA WalletsSaveOthers ==
  ASSUME FilesInv, NEW m \in Requests, op[m] \in WalletOps, WalletStep(m),
         pc[m] \notin SavingSteps, pc'[m] \in SavingSteps
  PROVE  ListOf(target'[m]) \notin {"tokens", "pools"}
<1> USE DEF SavingSteps
<1>1. \A d \in {"hardware"} \cup KeyFiles : ListOf(SavesTo(d)) = d /\ d \notin {"tokens", "pools"}
  BY NamesOfLists, FilesAssumption
<1>2. arg[m].wallet \in KeyFiles BY ArgsAreTyped DEF WalletArgs
<1>3. FilesTyped BY DEF FilesInv
<1>4. \A a : ~Return(m, a) BY <1>3 DEF Return, Answer, FilesTyped
<1>5. \A s, h : GoTo(m, s, h) => s \in SavingSteps BY <1>3 DEF GoTo, FilesTyped
<1>6. \A s, h : BeginStep(m, s, h) => s \in SavingSteps BY <1>3 DEF BeginStep, FilesTyped
<1>7. \A c : ~SetConfig(m, c) BY <1>3 DEF SetConfig, Answer, FilesTyped
<1>8. \A d \in {"hardware"} \cup KeyFiles : \A l, n, h :
        BeginSave(m, d, l, n) \/ Save(m, d, l, n, h) => ListOf(target'[m]) \notin {"tokens", "pools"}
  BY <1>1, <1>3 DEF BeginSave, Save, FilesTyped
<1>9. ~Unacceptable(m) BY <1>4 DEF Unacceptable
<1>10. ~(UpdateConfig(m) \/ SetDefault(m) \/ NewDefault(m) \/ ListWallets(m))
  BY <1>4, <1>7 DEF UpdateConfig, SetDefault, NewDefault, ListWallets
<1>11. ~(Chmod(m) \/ IsHardware(m) \/ RemainingKeys(m))
  <2>1. \A h : ~GoTo(m, "set", h) /\ ~GoTo(m, "rest", h) BY <1>5
  <2> QED BY ONLY <2>1, <1>4 DEF Chmod, IsHardware, RemainingKeys
<1>12. ~(SetDefaultRoute(m) \/ RemoveWallet(m))
  <2>1. \A s \in {"set", "isHardware", "hardware", "gone"} : \A h : ~BeginStep(m, s, h) BY <1>6
  <2>2. /\ (IF KeyExists(arg[m].wallet) THEN "set" ELSE "isHardware") \in {"set", "isHardware", "hardware", "gone"}
        /\ (IF arg[m].wallet \in Hardware THEN "hardware" ELSE "gone") \in {"set", "isHardware", "hardware", "gone"}
    OBVIOUS
  <2> QED BY ONLY <2>1, <2>2, <1>4 DEF SetDefaultRoute, RemoveWallet
<1>13. ~RemoveKey(m) BY <1>3 DEF RemoveKey, Unlink, Afterwards, FilesTyped
<1>14. ~SaveWallets(m) BY DEF SaveWallets, Open, Write, WriteFails, At
<1>15. CASE AddWallet(m) BY <1>2, <1>8, <1>9, <1>15 DEF AddWallet
<1>16. CASE AddHardware(m) BY <1>8, <1>9, <1>16 DEF AddHardware
<1>17. CASE RemoveHardware(m) BY <1>4, <1>8, <1>17 DEF RemoveHardware
<1>18. CASE SignMessage(m) BY <1>2, <1>4, <1>8, <1>9, <1>18 DEF SignMessage, GetWallet
<1> QED BY <1>10, <1>11, <1>12, <1>13, <1>14, <1>15, <1>16, <1>17, <1>18 DEF WalletStep

LEMMA OthersLeaveTheLists ==
  ASSUME FilesInv, ListsInv, NEW m \in Requests, op[m] \notin ListUsers, op[m] \in WalletOps => WalletStep(m),
         OwnStep(m) \/ (LoadEnds(m) /\ op[m] \in InstanceOps)
  PROVE  ListMove(m)
<1>1. /\ UNCHANGED <<op, arg, up>> /\ pc[m] # "done"
      /\ \A q \in Others(m) : op[q] \notin InstanceOps =>
           /\ pc'[q] = pc[q] /\ held'[q] = held[q] /\ answer'[q] = answer[q]
           /\ target'[q] = target[q] /\ list'[q] = list[q] /\ next'[q] = next[q]
  <2>1. OwnStep(m) => UNCHANGED <<op, arg, up>> /\ pc[m] # "done" BY OthersStay
  <2> QED BY <2>1, TheOthersStay DEF LoadEnds, faultVars, Others
<1>2. op[m] \in Savers => op[m] \in WalletOps BY ListOpsAre
<1>3. op[m] \notin TokenOps \cup PoolOps \cup PoolUsers \cup TokenChanges \cup PoolChanges
  BY ListOpsAre DEF ListUsers
<1>4. FilesTyped /\ {"tokens", "pools"} \subseteq Names \cap Lists /\ {"tokens", "pools"} \cap KeyFiles = {}
  BY NamesOfLists, FilesAssumption DEF FilesInv
<1>5. /\ \A d \in {"tokens", "pools"} : expected'[d] = expected[d] /\ entry'[d] = entry[d]
      /\ clash \subseteq clash'
      /\ pc'[m] \in SavingSteps => op[m] \in WalletOps /\ ListOf(target'[m]) \notin {"tokens", "pools"}
  <2>1. CASE LoadEnds(m) BY <2>1, <1>4 DEF LoadEnds, SavingSteps, fileVars, FilesTyped
  <2>2. CASE Between(m)
    <3>1. pc'[m] \notin SavingSteps BY <2>2, <1>4, StepsAreApart DEF Between, FilesTyped
    <3> QED BY <3>1, <2>2 DEF Between
  <2>3. CASE BeginsSave(m)
    <3>1. op[m] \in WalletOps /\ pc[m] \notin SavingSteps BY <2>3, <1>2 DEF BeginsSave
    <3>2. UNCHANGED <<entry, expected>> /\ clash \subseteq clash' BY <2>3 DEF BeginsSave
    <3> QED BY <3>1, <3>2, WalletsSaveOthers
  <2>4. CASE Removes(m)
    <3>1. PICK d \in KeyFiles, s \in {"done"} \cup (StepsOf(op[m]) \ {"tokenAdd"}), h \in Holds : Unlink(m, d, s, h)
      BY <2>4 DEF Removes
    <3>2. pc'[m] \notin SavingSteps BY <3>1, <1>4, StepsAreApart DEF Unlink, FilesTyped
    <3> QED BY <3>1, <3>2, <1>4 DEF Unlink, FilesTyped
  <2>5. CASE SavesOn(m)
    <3>1. pc[m] \in SavingSteps BY <2>5 DEF SavesOn, Open, Write, Rename, WriteFails, At, SavingSteps
    <3>2. op[m] \in WalletOps BY <3>1, <1>2 DEF FilesInv, LifeInv
    <3>3. SaverOf(m) BY DEF ListsInv
    <3>4. ListOf(target[m]) \notin {"tokens", "pools"} BY <3>1, <3>2, <3>3 DEF SaverOf
    <3>5. target[m] \notin {"tokens", "pools"} BY <3>4, <1>4, NamesOfLists
    <3>6. UNCHANGED <<target, clash>> /\ \A d \in {"tokens", "pools"} : expected'[d] = expected[d] /\ entry'[d] = entry[d]
      <4>1. CASE Open(m) BY <4>1, <3>5, <1>4 DEF Open, FilesTyped
      <4>2. CASE Write(m) BY <4>2, <3>5, <1>4 DEF Write, Changed, FilesTyped
      <4>3. ASSUME NEW swallows, NEW s, Rename(m, swallows, s) \/ WriteFails(m, swallows, s)
            PROVE  UNCHANGED <<target, clash>> /\ \A d \in {"tokens", "pools"} : expected'[d] = expected[d] /\ entry'[d] = entry[d]
        BY <4>3, <3>4, <3>5, <1>4 DEF Rename, WriteFails, Changed, FilesTyped
      <4> QED BY <4>1, <4>2, <4>3, <2>5 DEF SavesOn
    <3> QED BY <3>2, <3>4, <3>6
  <2> QED BY <2>1, <2>2, <2>3, <2>4, <2>5 DEF OwnStep
<1>6. \A d \in {"tokens", "pools"} : ~Saving(m, d)' BY <1>5 DEF Saving, SavingSteps
<1>7. StageOf(m)' /\ FlagOf(m)' /\ ToldOf(m)' BY <1>1, <1>3 DEF StageOf, FlagOf, ToldOf
<1>8. SaverOf(m)' BY <1>1, <1>3, <1>5 DEF SaverOf
<1> QED BY <1>1, <1>3, <1>5, <1>6, <1>7, <1>8 DEF ListMove

\* Nor does a crash, or a start, change them.
LEMMA QuietKeeps ==
  ASSUME ListsInv, UNCHANGED <<op, arg, held, target, list, next, entry, expected, clash>>,
         \A q \in Requests : /\ pc'[q] \in {pc[q], "done"}
                             /\ answer'[q] = "ok" => answer[q] = "ok"
  PROVE  ListsInv'
<1>1. /\ \A q, l : (TokenIn(q, l)' <=> TokenIn(q, l)) /\ (PoolIn(q, l)' <=> PoolIn(q, l))
      /\ \A q, r : Touches(q, r)' <=> Touches(q, r)
      /\ \A q, s : Staged(q, s)' <=> Staged(q, s)
  BY DEF TokenIn, PoolIn, Touches, SameAddress, Staged
<1>2. ASSUME NEW q \in Requests PROVE StageOf(q)' /\ FlagOf(q)' /\ SaverOf(q)' /\ ToldOf(q)'
  <2>1. StageOf(q) /\ FlagOf(q) /\ SaverOf(q) /\ ToldOf(q) BY DEF ListsInv
  <2>2. StageOf(q)' /\ FlagOf(q)' /\ ToldOf(q)' BY <2>1, <1>1 DEF StageOf, FlagOf, ToldOf, PoolSteps, SavingSteps
  <2>3. SaverOf(q)'
    <3>1. CASE pc'[q] = "done" BY <3>1 DEF SaverOf, SavingSteps
    <3>2. CASE pc'[q] = pc[q]
      <4>1. TokenIn(q, list[q])' <=> TokenIn(q, list[q]) BY DEF TokenIn, SameAddress
      <4>2. PoolIn(q, list[q])' <=> PoolIn(q, list[q]) BY DEF PoolIn, SameAddress
      <4> QED BY <4>1, <4>2, <3>2, <2>1 DEF SaverOf
    <3> QED BY <3>1, <3>2
  <2> QED BY <2>2, <2>3
<1>3. \A d : \A q \in Requests : Saving(q, d)' => Saving(q, d) BY DEF Saving
<1>4. ASSUME NEW r \in Requests PROVE KeptOf(r)'
  <2>1. NobodyElse(r)' => NobodyElse(r)
    <3>1. \A q \in Others(r) : NotBegun(q)' => NotBegun(q) BY DEF NotBegun, Others, SavingSteps
    <3> QED BY <3>1, <1>1 DEF NobodyElse, Others
  <2>2. TokensKept(r) => TokensKept(r)' BY <1>1, <1>3 DEF TokensKept, Undisturbed
  <2>3. PoolsKept(r) => PoolsKept(r)' BY <1>1, <1>3 DEF PoolsKept, Undisturbed
  <2>4. KeptOf(r) BY DEF ListsInv
  <2> QED BY <2>1, <2>2, <2>3, <2>4 DEF KeptOf
<1> QED BY <1>2, <1>4 DEF ListsInv

LEMMA RequestsMove ==
  ASSUME FilesInv, ListsInv, NEW r \in Requests, OwnStep(r) \/ (LoadEnds(r) /\ op[r] \in InstanceOps),
         op[r] \in TokenOps => TokenStep(r), op[r] \in PoolOps => PoolStep(r),
         op[r] \in WalletOps => WalletStep(r), op[r] \in TradeOps => TradeStep(r)
  PROVE  ListMove(r) /\ (op[r] \in ListUsers => ListStep(r))
<1>1. CASE op[r] \in ListUsers
  <2>1. OwnStep(r) BY <1>1, ListOpsAre
  <2>2. op[r] \in TokenOps \/ op[r] \in PoolOps \/ (op[r] \in SwapOps /\ op[r] \in TradeOps)
    BY <1>1 DEF ListUsers, PoolUsers, TradeOps
  <2>3. StageOf(r) /\ FlagOf(r) BY DEF ListsInv
  <2>4. ListStep(r) BY <2>2, <2>3, TokensAreLists, PoolsAreLists, SwapsAreLists
  <2> QED BY <2>1, <2>4, <1>1, ListStepMoves
<1>2. CASE op[r] \notin ListUsers BY <1>2, OthersLeaveTheLists
<1> QED BY <1>1, <1>2

LEMMA ListsAreInvariant == Spec => []ListsInv
<1>1. Init => ListsInv
  <2> SUFFICES ASSUME Init PROVE ListsInv OBVIOUS
  <2>1. /\ pc = [r \in Requests |-> "start"] /\ held = [r \in Requests |-> Nothing]
        /\ answer = [r \in Requests |-> "none"] /\ up = TRUE
    BY DEF Init, ConfInit, FilesInit
  <2>2. \A r \in Requests : pc[r] = "start" /\ ~held[r].flag /\ answer[r] = "none" BY <2>1 DEF Nothing
  <2>3. \A r \in Requests : StageOf(r) /\ FlagOf(r) /\ SaverOf(r) /\ KeptOf(r) /\ ToldOf(r)
    BY <2>2 DEF StageOf, FlagOf, SaverOf, KeptOf, ToldOf, SavingSteps, PoolSteps
  <2> QED BY <2>3 DEF ListsInv
<1>2. FilesInv /\ FilesInv' /\ ListsInv /\ [Next]_vars => ListsInv'
  <2> SUFFICES ASSUME FilesInv, FilesInv', ListsInv, [Next]_vars PROVE ListsInv' OBVIOUS
  <2>1. CASE UNCHANGED <<requestVars, fileVars, faultVars>> \/ Restart
    <3>1. UNCHANGED <<op, arg, pc, held, target, list, next, answer, entry, expected, clash>>
      BY <2>1 DEF requestVars, fileVars, Restart
    <3> QED BY <3>1, QuietKeeps
  <2>2. CASE Crash
    <3>1. CrashFiles BY <2>2 DEF Crash
    <3>2. /\ UNCHANGED <<op, arg, held, target, list, next, entry, expected, clash>>
          /\ \A q \in Requests : /\ pc'[q] \in {pc[q], "done"}
                                 /\ answer'[q] = "ok" => answer[q] = "ok"
      BY <3>1 DEF CrashFiles, Waits
    <3> QED BY <3>2, QuietKeeps
  <2>3. ASSUME NEW r \in Requests, OwnStep(r) \/ (LoadEnds(r) /\ op[r] \in InstanceOps),
               op[r] \in TokenOps => TokenStep(r), op[r] \in PoolOps => PoolStep(r),
               op[r] \in WalletOps => WalletStep(r), op[r] \in TradeOps => TradeStep(r)
        PROVE  ListsInv'
    BY <2>3, RequestsMove, ListMoveKeeps
  <2>4. \/ UNCHANGED vars \/ (\E c \in Caches : Expire(c)) \/ Crash \/ Restart
        \/ \E r \in Requests : /\ OwnStep(r) \/ (LoadEnds(r) /\ op[r] \in InstanceOps)
                               /\ op[r] \in TokenOps => TokenStep(r)
                               /\ op[r] \in PoolOps => PoolStep(r)
                               /\ op[r] \in WalletOps => WalletStep(r)
                               /\ op[r] \in TradeOps => TradeStep(r)
    BY NextByFamily
  <2>5. UNCHANGED vars \/ (\E c \in Caches : Expire(c)) => UNCHANGED <<requestVars, fileVars, faultVars>>
    BY DEF vars, Expire
  <2> QED BY <2>1, <2>2, <2>3, <2>4, <2>5
<1> QED BY <1>1, <1>2, FilesAreInvariant, PTL DEF Spec

\* The lists keep what they were told: a change that was told to have been made is on its list
\* as long as no other request for the same symbol, address or pool began, no two changes
\* overlapped and none went on with a list that was replaced meanwhile; and they keep it once.
THEOREM ListsKeepChanges == Spec => []ListsAreKept
<1>1. ListsInv => KeptChanges
  <2> SUFFICES ASSUME ListsInv, NEW r \in Requests, answer[r] = "ok",
                      \A q \in Others(r) : pc[q] = "start" \/ ~Touches(q, r)
               PROVE  /\ op[r] \in TokenChanges /\ Undisturbed("tokens") => TokenEffect(r)
                      /\ op[r] \in PoolChanges /\ Undisturbed("pools") => PoolEffect(r)
    BY DEF KeptChanges, TokenChanges, PoolChanges
  <2>1. NobodyElse(r) /\ KeptOf(r) BY DEF ListsInv, NobodyElse, NotBegun
  <2>2. op[r] \in TokenChanges => op[r] \in TokenOps BY ListOpsAre
  <2> QED BY <2>1 DEF KeptOf, TokensKept, PoolsKept, TokenEffect, PoolEffect, TokenIn, PoolIn
<1> QED BY <1>1, ListsAreInvariant, EntriesAreUnique, PTL DEF ListsAreKept

-----------------------------------------------------------------------------
\* What a trade sends: nothing, or what Dispatch does with a pool that it read, or with none.
Sends(r) ==
  \/ UNCHANGED sent
  \/ \E to, pools :
       /\ Dispatch(r, to, pools)
       /\ pools # {} => op[r] \in SwapOps /\ pc[r] = "start" /\ pools \subseteq ThePools(r)

LEMMA TradesSend ==
  ASSUME NEW r \in Requests, TradeStep(r)
  PROVE  Sends(r)
<1>1. \A a : Fails(r, a) => Sends(r) BY DEF Fails, Sends
<1>2. \A to : Dispatch(r, to, {}) => Sends(r) BY DEF Sends
<1>3. Unparsed(r) \/ UnknownChain(r) => Sends(r) BY <1>1 DEF Unparsed, UnknownChain
<1>4. \A c : OfChain(r, c) => Sends(r) BY <1>1, <1>2 DEF OfChain
<1>5. \A o, connectors : ByConnector(r, o, connectors) => Sends(r) BY <1>1, <1>2, <1>3 DEF ByConnector
<1>6. \A o : ByChain(r, o) => Sends(r) BY <1>3, <1>4 DEF ByChain
<1>7. ASSUME NEW providers, pc[r] = "start", op[r] \in SwapOps, Route(r, providers)
      PROVE  Sends(r)
  <2>1. ASSUME NEW to, NEW p \in PoolsFor(r, ThePools(r)), Dispatch(r, to, {p})
        PROVE  Sends(r)
    <3>1. {p} \subseteq ThePools(r) BY <2>1 DEF PoolsFor, SamePair
    <3> QED BY <3>1, <2>1, <1>7 DEF Sends
  <2>2. UNCHANGED sent => Sends(r) BY DEF Sends
  <2>3. \A to : RouteTo(r, to, providers) => Sends(r) BY <2>1, <2>2, <1>1, <1>2 DEF RouteTo
  <2> QED BY <2>3, <1>1, <1>7 DEF Route
<1>8. QuoteSwap(r) \/ ExecuteSwap(r) => Sends(r)
  <2>1. QuoteSwap(r) \/ ExecuteSwap(r) => pc[r] = "start" /\ op[r] \in SwapOps
    BY DEF QuoteSwap, ExecuteSwap, Starts, SwapOps
  <2> QED BY <2>1, <1>3, <1>7
          DEF QuoteSwap, ExecuteSwap, QuoteSolanaSwap, QuoteEthereumSwap, ExecuteSolanaSwap, ExecuteEthereumSwap
<1>9. SaveTemplate(r) => Sends(r) BY DEF SaveTemplate, Sends
<1>10. OpenPosition(r) \/ AddToPosition(r) \/ RemovePosition(r) \/ CollectFees(r) \/ ClosePosition(r)
       \/ CreateClmmPool(r) => Sends(r)
  BY <1>1, <1>5 DEF OpenPosition, AddToPosition, RemovePosition, CollectFees, ClosePosition, CreateClmmPool
<1>11. ClmmPoolInfo(r) \/ ClmmPositionInfo(r) \/ ClmmPositionsOwned(r) \/ ClmmQuotePosition(r) => Sends(r)
  BY <1>3, <1>4, <1>6 DEF ClmmPoolInfo, ClmmPositionInfo, ClmmPositionsOwned, ClmmQuotePosition,
     SolanaQuotePosition, EthereumQuotePosition
<1>12. AmmAddLiquidity(r) \/ AmmRemoveLiquidity(r) \/ AmmCreatePool(r) \/ AmmExecuteSwap(r) \/ AmmPoolInfo(r)
       \/ AmmPositionInfo(r) \/ AmmPositionsOwned(r) \/ AmmQuoteSwap(r) \/ AmmQuoteLiquidity(r) => Sends(r)
  BY <1>5 DEF AmmAddLiquidity, AmmRemoveLiquidity, AmmCreatePool, AmmExecuteSwap, AmmPoolInfo, AmmPositionInfo,
     AmmPositionsOwned, AmmQuoteSwap, AmmQuoteLiquidity
<1> QED BY <1>8, <1>9, <1>10, <1>11, <1>12 DEF TradeStep

\* A request is noted once, for itself.
SentTyped == sent = [r \in Requests |-> sent[r]]

LEMMA SentIs ==
  ASSUME FilesInv, [Next]_vars
  PROVE  UNCHANGED sent \/ \E m \in Requests : Sends(m) /\ op[m] \in TradeOps
<1>1. \/ UNCHANGED vars \/ UNCHANGED sent
      \/ \E m \in Requests : IF op[m] \in TradeOps THEN TradeStep(m) ELSE UNCHANGED sent
  BY NextByFamily DEF Crash, tradeVars
<1> QED BY <1>1, TradesSend DEF vars, tradeVars

LEMMA SentIsTyped == Spec => []SentTyped
<1>1. Init => SentTyped BY DEF Init, MemoryInit, SentTyped
<1>2. FilesInv /\ SentTyped /\ [Next]_vars => SentTyped'
  <2> SUFFICES ASSUME FilesInv, SentTyped, [Next]_vars PROVE SentTyped' OBVIOUS
  <2>1. UNCHANGED sent \/ \E m \in Requests : Sends(m) BY SentIs
  <2>2. \A m \in Requests : Sends(m) => sent' = sent \/ \E v : sent' = [sent EXCEPT ![m] = v]
    BY DEF Sends, Dispatch
  <2> QED BY <2>1, <2>2 DEF SentTyped
<1> QED BY <1>1, <1>2, FilesAreInvariant, PTL DEF Spec

\* What a swap read of the pools, and goes on with, was on the list since it began.
SeenInv ==
  \A r \in Requests : op[r] \in SwapOps /\ pc[r] = "start" /\ "pools" \notin clash => ThePools(r) \subseteq seen[r]

\* A step of the swap itself: it reads the list, or its template becomes the list.
LEMMA SwapsSee ==
  ASSUME FilesInv, ListsInv, NEW r \in Requests, op[r] \in SwapOps, ListStep(r), pc'[r] = "start", "pools" \notin clash
  PROVE  ThePools(r)' \subseteq expected'["pools"]
<1>1. op[r] \in PoolUsers /\ op[r] \in ListUsers /\ op[r] \notin PoolOps \cup PoolChanges \cup TokenOps
  BY FamiliesAreApart DEF PoolUsers, ListUsers, SwapOps, PoolOps, PoolChanges, TokenOps
<1>2. FilesTyped BY DEF FilesInv
<1>3. CASE Rests(r)
  <2>1. Reads(r, "pools") /\ expected' = expected BY <1>1, <1>3 DEF Rests
  <2>2. ThePools(r)' = ContentOf("pools").list BY <2>1, <1>2 DEF Reads, GoTo, FilesTyped, Holds, ThePools
  <2>3. entry["pools"] = NoFile \/ data[entry["pools"]] = Whole(expected["pools"])
    BY NamesOfLists DEF FilesInv, SavedInv
  <2>4. Absent.list = {} /\ Whole(expected["pools"]).list = expected["pools"] BY DEF Absent, Whole
  <2> QED BY <2>1, <2>2, <2>3, <2>4 DEF ContentOf
<1>4. CASE SavesTemplate(r) \/ SavesTokens(r) \/ SavesPools(r)
  <2>1. pc'[r] = "open" BY <1>2, <1>4 DEF SavesTemplate, SavesTokens, SavesPools, Save, FilesTyped
  <2> QED BY <2>1
<1>5. CASE Writes(r)
  <2>1. SaverOf(r) /\ FlagOf(r) BY DEF ListsInv
  <2>2. pc[r] \in SavingSteps /\ (Within(r) \/ Replaces(r)) BY <2>1, <1>1, <1>5, WritesAreSo
  <2>3. /\ ListOf(target[r]) = "pools" /\ list[r] = Template /\ held[r].read = Whole(Template)
    BY <2>1, <2>2, <1>1 DEF SaverOf, FlagOf
  <2>4. Replaces(r) BY <2>2, <1>1 DEF Within, SavingSteps
  <2>5. expected'["pools"] = Template /\ held' = held
    BY <2>3, <2>4, <1>2, NamesOfLists DEF Replaces, FilesTyped
  <2> QED BY <2>3, <2>5 DEF ThePools, Whole
<1> QED BY <1>3, <1>4, <1>5 DEF ListStep

LEMMA NothingIsRead == Nothing.read.list = {}
BY DEF Nothing, NotRead

LEMMA SeenIsInvariant == Spec => []SeenInv
<1>1. Init => SeenInv
  <2>1. Init => \A r \in Requests : held[r] = Nothing BY DEF Init, ConfInit, FilesInit
  <2> QED BY <2>1, NothingIsRead DEF SeenInv, ThePools
<1>2. FilesInv /\ ListsInv /\ SeenInv /\ [Next]_vars => SeenInv'
  <2> SUFFICES ASSUME FilesInv, ListsInv, SeenInv, [Next]_vars,
                      NEW r \in Requests, op'[r] \in SwapOps, pc'[r] = "start", "pools" \notin clash'
               PROVE  ThePools(r)' \subseteq seen'[r]
    BY DEF SeenInv
  <2>1. CASE UNCHANGED <<op, pc, held, clash, seen>> BY <2>1 DEF SeenInv, ThePools
  <2>2. CASE Crash
    <3>1. held'[r] = Nothing BY <2>2 DEF Crash, CrashFiles, Waits
    <3> QED BY <3>1, NothingIsRead DEF ThePools
  <2>3. ASSUME NEW m \in Requests, Watch, UNCHANGED <<op, arg>>,
               OwnStep(m) \/ (LoadEnds(m) /\ op[m] \in InstanceOps),
               op[m] \in TokenOps => TokenStep(m), op[m] \in PoolOps => PoolStep(m),
               op[m] \in WalletOps => WalletStep(m), op[m] \in TradeOps => TradeStep(m)
        PROVE  ThePools(r)' \subseteq seen'[r]
    <3>1. ListMove(m) /\ (op[m] \in ListUsers => ListStep(m)) BY <2>3, RequestsMove
    <3>2. "pools" \notin clash BY <3>1 DEF ListMove
    <3>3. CASE held'[r] = Nothing BY <3>3, NothingIsRead DEF ThePools
    <3>4. CASE held'[r] # Nothing
      <4>1. seen'[r] = seen[r] \cup expected'["pools"] BY <3>4, <2>3 DEF Watch
      <4>2. CASE r = m
        <5>1. op[m] \in SwapOps /\ op[m] \in ListUsers BY <4>2, <2>3 DEF ListUsers, PoolUsers
        <5> QED BY <5>1, <4>1, <4>2, <3>1, <3>2, SwapsSee
      <4>3. CASE r # m
        <5>1. op[r] \in SwapOps /\ op[r] \notin InstanceOps BY <2>3, ListOpsAre DEF ListUsers, PoolUsers
        <5>2. pc'[r] = pc[r] /\ held'[r] = held[r] BY <5>1, <4>3, <3>1 DEF ListMove, Others
        <5> QED BY <5>1, <5>2, <4>1, <3>2 DEF SeenInv, ThePools
      <4> QED BY <4>2, <4>3
    <3> QED BY <3>3, <3>4
  <2>4. \/ UNCHANGED vars
        \/ (\E c \in Caches : Expire(c)) /\ UNCHANGED tradeVars
        \/ Crash
        \/ Restart /\ UNCHANGED tradeVars
        \/ \E m \in Requests : /\ Watch /\ UNCHANGED <<op, arg>>
                               /\ OwnStep(m) \/ (LoadEnds(m) /\ op[m] \in InstanceOps)
                               /\ op[m] \in TokenOps => TokenStep(m)
                               /\ op[m] \in PoolOps => PoolStep(m)
                               /\ op[m] \in WalletOps => WalletStep(m)
                               /\ op[m] \in TradeOps => TradeStep(m)
    BY NextByFamily
  <2>5. \/ UNCHANGED vars
        \/ (\E c \in Caches : Expire(c)) /\ UNCHANGED tradeVars
        \/ Restart /\ UNCHANGED tradeVars
        => UNCHANGED <<op, pc, held, clash, seen>>
    BY DEF vars, Expire, Restart, tradeVars, requestVars, fileVars
  <2> QED BY <2>1, <2>2, <2>3, <2>4, <2>5
<1> QED BY <1>1, <1>2, FilesAreInvariant, ListsAreInvariant, PTL DEF Spec

\* A swap goes to a pool that was on the list at some moment since the swap began, whatever
\* the others did to the list between its read and its use; unless changes of it overlapped.
THEOREM DispatchIsAsAsked == Spec => DispatchedAsAsked
<1>1. FilesInv /\ SeenInv /\ SentTyped /\ [Next]_vars =>
        [\A r \in Requests : sent'[r] # sent[r] /\ "pools" \notin clash => sent'[r].pools \subseteq seen[r]]_vars
  <2> SUFFICES ASSUME FilesInv, SeenInv, SentTyped, [Next]_vars, NEW r \in Requests, sent'[r] # sent[r],
                      "pools" \notin clash
               PROVE  sent'[r].pools \subseteq seen[r]
    OBVIOUS
  <2>1. PICK m \in Requests : Sends(m) BY SentIs
  <2>2. PICK to, pools :
          /\ Dispatch(m, to, pools)
          /\ pools # {} => op[m] \in SwapOps /\ pc[m] = "start" /\ pools \subseteq ThePools(m)
    BY <2>1 DEF Sends
  <2>3. sent' = [sent EXCEPT ![m] = [to |-> to, network |-> arg[m].network, pools |-> pools, wallet |-> WalletOf(m)]]
    BY <2>2 DEF Dispatch
  <2>4. r = m /\ sent'[r].pools = pools BY <2>3 DEF SentTyped
  <2> QED BY <2>2, <2>4 DEF SeenInv
<1> QED BY <1>1, FilesAreInvariant, SeenIsInvariant, SentIsTyped, PTL DEF Spec, DispatchedAsAsked

-----------------------------------------------------------------------------
\* The device.  The lock is kept by somebody who opens, uses or closes the transport; and the
\* search of a request that nobody disturbs goes from path to path until the address is found.
Managers == [locked : BOOLEAN, transport : Transports \cup {NoTransport}, open : SUBSET Transports]
NewSession == [using |-> NoTransport, index |-> 1, found |-> FALSE, stopped |-> FALSE, disturbed |-> FALSE]

KeepsLock(m, p) == IF m.transport = NoTransport THEN p = "opening" ELSE p \in {"replace", "exchange", "close"}
LockInv == manager.locked => \E r \in Requests : KeepsLock(manager, pc[r])

Adds(r) == op[r] = "ledger add"
NotTried(r) == Adds(r) /\ arg[r].index > LastPath(r)
Searches(r, p, s, a) ==
  /\ a \in {"refused", "error"} => NotTried(r)
  /\ p # "replace"
  /\ p \in {"opening", "exchange"} => ~s.found /\ ~s.stopped /\ (Adds(r) => s.index <= arg[r].index)
  /\ p = "close" => ~s.stopped /\ (s.found \/ (Adds(r) /\ s.index < arg[r].index))
Alone(r) == \A q \in Others(r) : op[q] \in LedgerOps => pc[q] = "start"
SearchInv ==
  \A r \in Requests : op[r] \in LedgerOps =>
    /\ pc[r] = "start" => session[r] = NewSession
    /\ pc[r] \in LedgerSteps => session[r].index <= Attempts(r)
    /\ Alone(r) /\ ~session[r].disturbed => Searches(r, pc[r], session[r], answer[r])
FirstInv == (\A r \in Requests : op[r] \in LedgerOps => pc[r] = "start") => manager = Unconnected

LedgerInv == LedgerTypeOK /\ LockInv /\ SearchInv /\ FirstInv

\* There is always a transport that nobody refers to.
LEMMA TransportIsLeft ==
  ASSUME LedgerTypeOK
  PROVE  Another \in Transports
<1> DEFINE U == {session[q].using : q \in Requests}
           f == [q \in Requests |-> session[q].using]
<1>1. IsFiniteSet(U) /\ Cardinality(U) <= Cardinality(Requests)
  <2>1. f \in Surjection(Requests, U) BY DEF Surjection
  <2> QED BY <2>1, FilesAssumption, FS_Surjection
<1>2. InUse = U \cup {manager.transport} BY DEF InUse
<1> HIDE DEF U
<1>3. Cardinality(U) \in Nat /\ Cardinality(Requests) \in Nat BY <1>1, NamesAreFinite, FS_CardinalityType
<1>4. IsFiniteSet(InUse) /\ Cardinality(InUse) <= Cardinality(U) + 1
  <2>1. /\ IsFiniteSet(U \cup {manager.transport})
        /\ \/ Cardinality(U \cup {manager.transport}) = Cardinality(U)
           \/ Cardinality(U \cup {manager.transport}) = Cardinality(U) + 1
    BY <1>1, FS_AddElement
  <2> QED BY <2>1, <1>2, <1>3
<1>5. Cardinality(InUse) \in Nat BY <1>4, FS_CardinalityType
<1>6. Cardinality(Transports) = Cardinality(Requests) + 2
  <2>1. Cardinality(Requests) + 2 \in Int BY <1>3
  <2> QED BY <2>1, FS_Interval, <1>3 DEF Transports
<1>7. ~(Transports \subseteq InUse)
  <2> SUFFICES ASSUME Transports \subseteq InUse PROVE FALSE OBVIOUS
  <2>1. Cardinality(Transports) <= Cardinality(InUse) BY <1>4, FS_Subset
  <2> QED BY <2>1, <1>1, <1>3, <1>4, <1>5, <1>6
<1>8. \E t : t \in Transports \ InUse BY <1>7
<1> QED BY <1>8 DEF Another

\* What a request does with the device.
WasRight(r) ==
  /\ pc[r] = "start" => manager = Unconnected
  /\ ~session[r].disturbed => Searches(r, pc[r], session[r], answer[r])
LedgerMove(r) ==
  \E m \in Managers, s \in Session, p \in LedgerSteps \cup {"done"} :
    /\ manager' = m /\ session' = [session EXCEPT ![r] = s] /\ pc'[r] = p
    /\ m.locked => KeepsLock(m, p) \/ (m = manager /\ ~KeepsLock(m, pc[r]))
    /\ p \in LedgerSteps => s.index <= Attempts(r)
    /\ WasRight(r) /\ ~s.disturbed => ~session[r].disturbed /\ Searches(r, p, s, answer'[r])

LEMMA LedgerMoveKeeps ==
  ASSUME LedgerInv, NEW r \in Requests, op[r] \in LedgerOps, LedgerMove(r), UNCHANGED <<op, arg>>,
         \A q \in Requests : q # r /\ op[q] \in LedgerOps => pc'[q] = pc[q] /\ answer'[q] = answer[q],
         \A q \in Requests : q # r /\ pc[q] \in LedgerSteps => pc'[q] = pc[q]
  PROVE  LedgerInv'
<1>1. PICK m \in Managers, s \in Session, p \in LedgerSteps \cup {"done"} :
        /\ manager' = m /\ session' = [session EXCEPT ![r] = s] /\ pc'[r] = p
        /\ m.locked => KeepsLock(m, p) \/ (m = manager /\ ~KeepsLock(m, pc[r]))
        /\ p \in LedgerSteps => s.index <= Attempts(r)
        /\ WasRight(r) /\ ~s.disturbed => ~session[r].disturbed /\ Searches(r, p, s, answer'[r])
  BY DEF LedgerMove
<1>2. session \in [Requests -> Session] BY DEF LedgerInv, LedgerTypeOK
<1>3. LedgerTypeOK' BY <1>1, <1>2 DEF LedgerTypeOK, Managers
<1>4. session'[r] = s /\ \A q \in Requests : q # r => session'[q] = session[q] BY <1>1, <1>2
<1>5. LockInv'
  <2>1. CASE ~m.locked BY <2>1, <1>1 DEF LockInv
  <2>2. CASE KeepsLock(m, p) BY <2>2, <1>1 DEF LockInv, KeepsLock
  <2>3. CASE m.locked /\ m = manager /\ ~KeepsLock(m, pc[r])
    <3>1. PICK q \in Requests : KeepsLock(manager, pc[q]) BY <2>3 DEF LedgerInv, LockInv
    <3>2. q # r /\ pc[q] \in LedgerSteps BY <3>1, <2>3 DEF KeepsLock, LedgerSteps
    <3>3. KeepsLock(manager', pc'[q]) BY <3>1, <3>2, <2>3, <1>1
    <3> QED BY <3>3 DEF LockInv
  <2> QED BY <2>1, <2>2, <2>3, <1>1
<1>6. p # "start" BY DEF LedgerSteps
<1>7. FirstInv' BY <1>1, <1>6 DEF FirstInv
<1>8. \A q \in Requests : \A x, y, a : Searches(q, x, y, a)' <=> Searches(q, x, y, a)
  BY DEF Searches, NotTried, LastPath, Adds
<1>9. Attempts(r)' = Attempts(r) /\ \A q \in Requests : Attempts(q)' = Attempts(q) BY DEF Attempts, LastPath
<1>10. ASSUME NEW q \in Requests, op[q] \in LedgerOps
       PROVE  /\ pc'[q] = "start" => session'[q] = NewSession
              /\ pc'[q] \in LedgerSteps => session'[q].index <= Attempts(q)
              /\ Alone(q)' /\ ~session'[q].disturbed => Searches(q, pc'[q], session'[q], answer'[q])
  <2>1. CASE q = r
    <3>1. Alone(r)' => WasRight(r)
      <4> SUFFICES ASSUME Alone(r)' PROVE WasRight(r) OBVIOUS
      <4>1. \A x \in Others(r) : op[x] \in LedgerOps => pc[x] = "start" BY DEF Alone, Others
      <4>2. pc[r] = "start" => manager = Unconnected BY <4>1 DEF LedgerInv, FirstInv, Others
      <4>3. ~session[r].disturbed => Searches(r, pc[r], session[r], answer[r])
        BY <4>1 DEF LedgerInv, SearchInv, Alone
      <4> QED BY <4>2, <4>3 DEF WasRight
    <3> QED BY <3>1, <2>1, <1>1, <1>4, <1>6
  <2>2. CASE q # r
    <3>1. pc'[q] = pc[q] /\ answer'[q] = answer[q] /\ session'[q] = session[q] BY <2>2, <1>4, <1>10
    <3>2. ~Alone(q)' BY <2>2, <1>1, <1>6 DEF Alone, Others
    <3> QED BY <3>1, <3>2, <1>10 DEF LedgerInv, SearchInv
  <2> QED BY <2>1, <2>2
<1>11. SearchInv' BY <1>8, <1>9, <1>10 DEF SearchInv
<1> QED BY <1>3, <1>5, <1>7, <1>11 DEF LedgerInv

\* Nor do others' steps, or a crash, matter to it.
LEMMA LedgerStays ==
  ASSUME LedgerInv, UNCHANGED <<op, arg, ledgerVars>>,
         \A q \in Requests : pc[q] \in LedgerSteps => pc'[q] = pc[q],
         \A q \in Requests : op[q] \in LedgerOps => pc'[q] = pc[q] /\ answer'[q] = answer[q]
  PROVE  LedgerInv'
<1>1. UNCHANGED <<manager, session>> BY DEF ledgerVars
<1>2. LedgerTypeOK' BY <1>1 DEF LedgerInv, LedgerTypeOK
<1>3. LockInv'
  <2> SUFFICES ASSUME manager.locked PROVE \E r \in Requests : KeepsLock(manager, pc'[r]) BY <1>1 DEF LockInv, KeepsLock
  <2>1. PICK q \in Requests : KeepsLock(manager, pc[q]) BY DEF LedgerInv, LockInv
  <2>2. pc[q] \in LedgerSteps BY <2>1 DEF KeepsLock, LedgerSteps
  <2> QED BY <2>1, <2>2
<1>4. FirstInv' BY <1>1 DEF LedgerInv, FirstInv
<1>5. \A q \in Requests : \A x, y, a : Searches(q, x, y, a)' <=> Searches(q, x, y, a)
  BY DEF Searches, NotTried, LastPath, Adds
<1>6. \A q \in Requests : Attempts(q)' = Attempts(q) BY DEF Attempts, LastPath
<1>7. \A q \in Requests : Alone(q)' <=> Alone(q) BY DEF Alone, Others
<1>8. SearchInv' BY <1>1, <1>5, <1>6, <1>7 DEF LedgerInv, SearchInv
<1> QED BY <1>2, <1>3, <1>4, <1>8 DEF LedgerInv

\* Going on to another step, or answering, is such a move.
LEMMA DoesMoves ==
  ASSUME FilesInv, NEW r \in Requests, NEW m \in Managers, NEW s \in Session, NEW step \in LedgerSteps,
         Does(r, m, s, step), m.locked => KeepsLock(m, step), s.index <= Attempts(r),
         WasRight(r) /\ ~s.disturbed => ~session[r].disturbed /\ Searches(r, step, s, answer[r])
  PROVE  LedgerMove(r)
<1>1. manager' = m /\ session' = [session EXCEPT ![r] = s] /\ pc'[r] = step /\ answer' = answer
  BY DEF Does, GoTo, FilesInv, FilesTyped
<1>2. step \in LedgerSteps \cup {"done"} OBVIOUS
<1> QED BY <1>1, <1>2 DEF LedgerMove

LEMMA TellsMoves ==
  ASSUME FilesInv, NEW r \in Requests, NEW m \in Managers, NEW s \in Session, NEW a,
         Tells(r, m, s, a), m.locked => m = manager /\ ~KeepsLock(m, pc[r]),
         WasRight(r) /\ ~s.disturbed => ~session[r].disturbed /\ (a \in {"refused", "error"} => NotTried(r))
  PROVE  LedgerMove(r)
<1>1. manager' = m /\ session' = [session EXCEPT ![r] = s] /\ pc'[r] = "done" /\ answer'[r] = a
  BY DEF Tells, Return, Answer, FilesInv, FilesTyped
<1>2. "done" \notin LedgerSteps /\ "done" \in LedgerSteps \cup {"done"} BY DEF LedgerSteps
<1>3. WasRight(r) /\ ~s.disturbed => ~session[r].disturbed /\ Searches(r, "done", s, answer'[r])
  BY <1>1 DEF Searches
<1> QED BY <1>1, <1>2, <1>3 DEF LedgerMove

LEMMA AttemptsAre ==
  ASSUME FilesInv, NEW r \in Requests, op[r] \in LedgerOps
  PROVE  /\ arg[r].index \in Nat \ {0}
         /\ Attempts(r) \in Nat /\ Attempts(r) >= 1 /\ Attempts(r) <= Accounts + 1
         /\ Adds(r) => Attempts(r) = LastPath(r)
<1>1. arg[r] \in LedgerArgs BY ArgsAreTyped
<1>2. arg[r].index \in 1..(Accounts + 2) BY <1>1 DEF LedgerArgs
<1>3. Accounts \in Nat /\ Accounts >= 1 BY LedgerAssumption
<1>4. arg[r].index \in Nat \ {0} BY <1>2, <1>3
<1>5. LastPath(r) \in {Accounts, Accounts + 1} BY DEF LastPath
<1>6. Attempts(r) \in {1, LastPath(r)} /\ (Adds(r) => Attempts(r) = LastPath(r)) BY DEF Attempts, Adds
<1> QED BY <1>3, <1>4, <1>5, <1>6

\* A lock that a step leaves is one that it found, and somebody else's.
Found(r, m) ==
  m.locked => /\ m = manager
              /\ IF m.transport = NoTransport THEN pc[r] # "opening" ELSE pc[r] = "start"

LEMMA CreateMoves ==
  ASSUME FilesInv, LedgerInv, NEW r \in Requests, op[r] \in LedgerOps, NEW m \in Managers, NEW s \in Session,
         s.index <= Attempts(r) + 1, Create(r, m, s), Found(r, m),
         m.locked /\ m.transport # NoTransport => s.index <= Attempts(r),
         WasRight(r) /\ ~s.disturbed =>
           /\ ~session[r].disturbed /\ m.transport = NoTransport /\ ~s.found /\ ~s.stopped
           /\ s.index = 1 \/ (Adds(r) /\ s.index <= arg[r].index)
  PROVE  LedgerMove(r)
<1>1. s.index \in Nat \ {0}
  <2>1. s.index \in 1..(Accounts + 2) BY DEF Session
  <2> QED BY <2>1, LedgerAssumption
<1>2. /\ arg[r].index \in Nat \ {0}
      /\ Attempts(r) \in Nat /\ Attempts(r) >= 1
      /\ Adds(r) => Attempts(r) = LastPath(r)
  BY AttemptsAre
<1>3. m.transport \in Transports \cup {NoTransport} /\ m.locked \in BOOLEAN BY DEF Managers
<1>4. m.locked /\ m.transport = NoTransport => m = manager /\ ~KeepsLock(m, pc[r]) BY DEF Found, KeepsLock
<1>5. {"refused", "error"} = {"error", "refused"} /\ NoAddress(r) \in {"refused", "error"} BY DEF NoAddress
<1>6. CASE s.index > Attempts(r)
  <2>1. Tells(r, m, s, NoAddress(r)) BY <1>6 DEF Create
  <2>2. ~(m.locked /\ m.transport # NoTransport) BY <1>6, <1>1, <1>2
  <2>3. WasRight(r) /\ ~s.disturbed => ~session[r].disturbed /\ NotTried(r) BY <1>6, <1>1, <1>2 DEF NotTried
  <2> QED BY <2>1, <2>2, <2>3, <1>4, TellsMoves
<1>7. CASE s.index <= Attempts(r) /\ m.locked /\ m.transport = NoTransport
  <2>1. Tells(r, m, [s EXCEPT !.disturbed = TRUE], NoAddress(r)) BY <1>7, <1>1, <1>2 DEF Create
  <2>2. [s EXCEPT !.disturbed = TRUE] \in Session /\ [s EXCEPT !.disturbed = TRUE].disturbed BY DEF Session
  <2> QED BY <2>1, <2>2, <1>4, <1>7, TellsMoves
<1>8. CASE s.index <= Attempts(r) /\ m.locked /\ m.transport # NoTransport
  <2> DEFINE t == [s EXCEPT !.using = m.transport, !.disturbed = TRUE]
  <2>1. Does(r, m, t, "close") BY <1>8, <1>1, <1>2 DEF Create
  <2>2. t \in Session /\ t.disturbed /\ t.index = s.index BY <1>3 DEF Session
  <2>3. "close" \in LedgerSteps /\ KeepsLock(m, "close") BY <1>8 DEF LedgerSteps, KeepsLock
  <2> HIDE DEF t
  <2> QED BY <2>1, <2>2, <2>3, <1>8, DoesMoves
<1>9. CASE s.index <= Attempts(r) /\ ~m.locked /\ m.transport # NoTransport
  <2> DEFINE t == [s EXCEPT !.using = m.transport]
             n == [m EXCEPT !.locked = TRUE]
  <2>1. Does(r, n, t, "replace") BY <1>9, <1>1, <1>2 DEF Create
  <2>2. t \in Session /\ t.disturbed = s.disturbed /\ t.index = s.index BY <1>3 DEF Session
  <2>3. n \in Managers BY DEF Managers
  <2>4. "replace" \in LedgerSteps /\ KeepsLock(n, "replace") BY <1>9 DEF LedgerSteps, KeepsLock, Managers
  <2>5. ~(WasRight(r) /\ ~t.disturbed) BY <2>2, <1>9
  <2> HIDE DEF t, n
  <2> QED BY <2>1, <2>2, <2>3, <2>4, <2>5, <1>9, DoesMoves
<1>10. CASE s.index <= Attempts(r) /\ ~m.locked /\ m.transport = NoTransport
  <2> DEFINE n == [m EXCEPT !.locked = TRUE]
  <2>1. Does(r, n, s, "opening") BY <1>10, <1>1, <1>2 DEF Create
  <2>2. n \in Managers BY DEF Managers
  <2>3. "opening" \in LedgerSteps /\ KeepsLock(n, "opening") BY <1>10 DEF LedgerSteps, KeepsLock, Managers
  <2>4. WasRight(r) /\ ~s.disturbed => ~session[r].disturbed /\ Searches(r, "opening", s, answer[r])
    BY <1>1, <1>2 DEF WasRight, Searches
  <2> HIDE DEF n
  <2> QED BY <2>1, <2>2, <2>3, <2>4, <1>10, DoesMoves
<1> QED BY <1>1, <1>2, <1>3, <1>6, <1>7, <1>8, <1>9, <1>10

LEMMA EndedMoves ==
  ASSUME FilesInv, LedgerInv, NEW r \in Requests, op[r] \in LedgerOps, NEW m \in Managers, NEW s \in Session,
         s.index <= Attempts(r), Ended(r, m, s), Found(r, m), m.transport = NoTransport,
         WasRight(r) /\ ~s.disturbed =>
           /\ ~session[r].disturbed /\ ~s.stopped
           /\ s.found \/ (Adds(r) /\ s.index < arg[r].index)
  PROVE  LedgerMove(r)
<1>1. m.locked => m = manager /\ ~KeepsLock(m, pc[r]) BY DEF Found, KeepsLock
<1>2. CASE s.found
  <2>1. Tells(r, m, s, "ok") BY <1>2 DEF Ended
  <2> QED BY <2>1, <1>1, TellsMoves
<1>3. CASE ~s.found /\ s.stopped
  <2>1. Tells(r, m, s, "refused") BY <1>3 DEF Ended
  <2> QED BY <2>1, <1>1, <1>3, TellsMoves
<1>4. CASE ~s.found /\ ~s.stopped
  <2> DEFINE t == [s EXCEPT !.index = @ + 1]
  <2>1. Create(r, m, t) BY <1>4 DEF Ended
  <2>2. s.index \in Nat \ {0}
    <3>1. s.index \in 1..(Accounts + 2) BY DEF Session
    <3> QED BY <3>1, LedgerAssumption
  <2>3. arg[r].index \in Nat \ {0} /\ Attempts(r) \in Nat /\ Attempts(r) <= Accounts + 1 BY AttemptsAre
  <2>4. s.index + 1 \in 1..(Accounts + 2) BY <2>2, <2>3, LedgerAssumption
  <2>5. t \in Session /\ t.index = s.index + 1 /\ t.disturbed = s.disturbed /\ t.found = s.found /\ t.stopped = s.stopped
    BY <2>4 DEF Session
  <2>6. t.index <= Attempts(r) + 1 BY <2>2, <2>3, <2>5
  <2>7. WasRight(r) /\ ~t.disturbed =>
           /\ ~session[r].disturbed /\ m.transport = NoTransport /\ ~t.found /\ ~t.stopped
           /\ t.index = 1 \/ (Adds(r) /\ t.index <= arg[r].index)
    BY <2>2, <2>3, <2>5, <1>4
  <2> HIDE DEF t
  <2> QED BY <2>1, <2>5, <2>6, <2>7, CreateMoves
<1> QED BY <1>2, <1>3, <1>4

LEMMA FinallyMoves ==
  ASSUME FilesInv, LedgerInv, NEW r \in Requests, op[r] \in LedgerOps, NEW m \in Managers, NEW s \in Session,
         s.index <= Attempts(r), Finally(r, m, s),
         m.locked => m = manager /\ pc[r] # "opening",
         WasRight(r) /\ ~s.disturbed =>
           /\ ~session[r].disturbed /\ ~s.stopped
           /\ s.found \/ (Adds(r) /\ s.index < arg[r].index)
  PROVE  LedgerMove(r)
<1>1. CASE m.transport = NoTransport
  <2>1. Found(r, m) BY <1>1 DEF Found
  <2>2. Ended(r, m, s) BY <1>1 DEF Finally
  <2> QED BY <2>1, <2>2, <1>1, EndedMoves
<1>2. CASE m.transport # NoTransport
  <2> DEFINE t == [s EXCEPT !.using = m.transport]
  <2>1. Does(r, m, t, "close") BY <1>2 DEF Finally
  <2>2. m.transport \in Transports BY <1>2 DEF Managers
  <2>3. /\ t \in Session /\ t.index = s.index /\ t.disturbed = s.disturbed
        /\ t.found = s.found /\ t.stopped = s.stopped
    BY <2>2 DEF Session
  <2>4. "close" \in LedgerSteps /\ KeepsLock(m, "close") BY <1>2 DEF LedgerSteps, KeepsLock
  <2>5. WasRight(r) /\ ~t.disturbed => ~session[r].disturbed /\ Searches(r, "close", t, answer[r])
    <3> SUFFICES ASSUME WasRight(r), ~t.disturbed PROVE ~session[r].disturbed /\ Searches(r, "close", t, answer[r]) OBVIOUS
    <3>1. ~session[r].disturbed /\ ~t.stopped /\ (t.found \/ (Adds(r) /\ t.index < arg[r].index)) BY <2>3
    <3>2. answer[r] \in {"refused", "error"} => NotTried(r) BY <3>1 DEF WasRight, Searches
    <3> HIDE DEF t
    <3> QED BY <3>1, <3>2 DEF Searches
  <2> HIDE DEF t
  <2> QED BY <2>1, <2>3, <2>4, <2>5, DoesMoves
<1> QED BY <1>1, <1>2

LEMMA LedgerStepIsSo ==
  ASSUME FilesInv, LedgerInv, NEW r \in Requests, op[r] \in LedgerOps, LedgerStep(r)
  PROVE  LedgerMove(r)
<1>1. manager \in Managers /\ session[r] \in Session BY DEF LedgerInv, LedgerTypeOK, Managers
<1>2. /\ pc[r] = "start" => session[r] = NewSession
      /\ pc[r] \in LedgerSteps => session[r].index <= Attempts(r)
  BY DEF LedgerInv, SearchInv
<1>3. arg[r].index \in Nat \ {0} /\ Attempts(r) \in Nat /\ Attempts(r) >= 1 BY AttemptsAre
<1>4. session[r].index \in Nat
  <2>1. session[r].index \in 1..(Accounts + 2) BY <1>1 DEF Session
  <2> QED BY <2>1, LedgerAssumption
<1>5. ASSUME pc[r] = "start", \/ \E a \in {"refused", "error"} : Tells(r, manager, Disturbed(r), a)
                              \/ Create(r, manager, session[r])
      PROVE  LedgerMove(r)
  <2>1. ~KeepsLock(manager, pc[r]) BY <1>5 DEF KeepsLock
  <2>2. Disturbed(r) \in Session /\ Disturbed(r).disturbed BY <1>1 DEF Disturbed, Session
  <2>3. ASSUME Create(r, manager, session[r])
        PROVE  LedgerMove(r)
    <3>1. session[r].index = 1 /\ ~session[r].found /\ ~session[r].stopped BY <1>2, <1>5 DEF NewSession
    <3>2. session[r].index <= Attempts(r) /\ session[r].index <= Attempts(r) + 1 BY <3>1, <1>3
    <3>3. Found(r, manager) BY <1>5 DEF Found
    <3>4. WasRight(r) => manager.transport = NoTransport BY <1>5 DEF WasRight, Unconnected
    <3> QED BY <3>1, <3>2, <3>3, <3>4, <2>3, <1>1, CreateMoves
  <2> QED BY <2>1, <2>2, <2>3, <1>1, <1>5, TellsMoves
<1>6. CASE AddFromLedger(r)
  BY <1>5, <1>6 DEF AddFromLedger, Starts
<1>7. CASE SignForSolana(r) \/ SignForEthereum(r)
  BY <1>5, <1>7 DEF SignForSolana, SignForEthereum, Sign, Starts
<1>8. CASE OpenTransport(r)
  <2>1. pc[r] = "opening" /\ pc[r] \in LedgerSteps BY <1>8 DEF OpenTransport, At, LedgerSteps
  <2> DEFINE m == [manager EXCEPT !.transport = Another, !.open = @ \cup {Another}]
             s == [session[r] EXCEPT !.using = Another]
  <2>2. ASSUME Does(r, m, s, "exchange")
        PROVE  LedgerMove(r)
    <3>1. Another \in Transports /\ Another # NoTransport
      <4>1. Another \in Transports BY TransportIsLeft DEF LedgerInv
      <4> QED BY <4>1 DEF Transports, NoTransport
    <3>2. m \in Managers /\ m.transport = Another BY <3>1, <1>1 DEF Managers
    <3>3. /\ s \in Session /\ s.index = session[r].index /\ s.disturbed = session[r].disturbed
          /\ s.found = session[r].found /\ s.stopped = session[r].stopped
      BY <3>1, <1>1 DEF Session
    <3>4. KeepsLock(m, "exchange") /\ "exchange" \in LedgerSteps BY <3>1, <3>2 DEF KeepsLock, LedgerSteps
    <3> HIDE DEF m, s
    <3>5. WasRight(r) /\ ~s.disturbed => ~session[r].disturbed /\ Searches(r, "exchange", s, answer[r])
      BY <3>3, <2>1 DEF WasRight, Searches
    <3>6. s.index <= Attempts(r) BY <3>3, <2>1, <1>2
    <3> QED BY <3>2, <3>3, <3>4, <3>5, <3>6, <2>2, DoesMoves
  <2>3. ASSUME Finally(r, Unopened(manager), [session[r] EXCEPT !.disturbed = TRUE])
        PROVE  LedgerMove(r)
    <3> DEFINE t == [session[r] EXCEPT !.disturbed = TRUE]
    <3>1. Unopened(manager) \in Managers /\ ~Unopened(manager).locked BY <1>1 DEF Unopened, Managers
    <3>2. t \in Session /\ t.index = session[r].index /\ t.disturbed BY <1>1 DEF Session
    <3>3. Finally(r, Unopened(manager), t) BY <2>3
    <3> HIDE DEF t
    <3>4. t.index <= Attempts(r) BY <3>2, <2>1, <1>2
    <3> QED BY <3>1, <3>2, <3>3, <3>4, FinallyMoves
  <2> QED BY <2>2, <2>3, <1>8 DEF OpenTransport
<1>9. ASSUME NEW found, found \in BOOLEAN, NEW s \in Replies(session[r], found), Finally(r, manager, s), pc[r] = "exchange",
             found \/ (Adds(r) /\ ~(session[r].index = arg[r].index))
      PROVE  LedgerMove(r)
  <2>0. \/ s = [session[r] EXCEPT !.disturbed = TRUE]
        \/ s = [session[r] EXCEPT !.disturbed = TRUE, !.stopped = TRUE]
        \/ s = [session[r] EXCEPT !.found = found]
    BY <1>9 DEF Replies, NoReply
  <2> session[r] \in Session BY <1>1
  <2>1. s \in Session /\ s.index = session[r].index
    <3>1. CASE s = [session[r] EXCEPT !.disturbed = TRUE] BY <3>1 DEF Session
    <3>2. CASE s = [session[r] EXCEPT !.disturbed = TRUE, !.stopped = TRUE] BY <3>2 DEF Session
    <3>3. CASE s = [session[r] EXCEPT !.found = found] BY <3>3, <1>9 DEF Session
    <3> QED BY <3>1, <3>2, <3>3, <2>0
  <2>2. pc[r] \in LedgerSteps BY <1>9 DEF LedgerSteps
  <2>3. ~s.disturbed => ~session[r].disturbed /\ s.stopped = session[r].stopped /\ s.found = found
    BY <2>0 DEF Session
  <2>4. WasRight(r) /\ ~s.disturbed =>
           /\ ~session[r].disturbed /\ ~s.stopped
           /\ s.found \/ (Adds(r) /\ s.index < arg[r].index)
    <3> SUFFICES ASSUME WasRight(r), ~s.disturbed
                 PROVE  /\ ~session[r].disturbed /\ ~s.stopped
                        /\ s.found \/ (Adds(r) /\ s.index < arg[r].index)
      OBVIOUS
    <3>1. ~session[r].stopped /\ (Adds(r) => session[r].index <= arg[r].index)
      BY <2>3, <1>9 DEF WasRight, Searches, Adds
    <3> QED BY <3>1, <2>1, <2>3, <1>3, <1>4, <1>9
  <2>5. s.index <= Attempts(r) BY <2>1, <2>2, <1>2
  <2> QED BY <2>1, <2>4, <2>5, <1>1, <1>9, FinallyMoves
<1>10. CASE GetAddress(r)
  <2>1. pc[r] = "exchange" /\ Adds(r) BY <1>10 DEF GetAddress, At, Adds
  <2> DEFINE found == session[r].index = arg[r].index
  <2>2. PICK s \in Replies(session[r], found) : Finally(r, manager, s) BY <1>10 DEF GetAddress
  <2>3. found \in BOOLEAN /\ (found \/ ~(session[r].index = arg[r].index)) OBVIOUS
  <2> HIDE DEF found
  <2> QED BY <2>1, <2>2, <2>3, <1>9
<1>11. CASE SignTransaction(r)
  <2>1. PICK s \in Replies(session[r], TRUE) : Finally(r, manager, s) BY <1>11 DEF SignTransaction
  <2> QED BY <2>1, <1>9, <1>11 DEF SignTransaction, At
<1>12. CASE CloseTransport(r)
  <2> DEFINE m == Released(manager, session[r].using)
  <2>1. m \in Managers /\ ~m.locked /\ m.transport = NoTransport BY <1>1 DEF Released, Managers
  <2>2. CloseTransport(r) => \/ pc[r] = "close" /\ Ended(r, m, session[r])
                             \/ pc[r] = "replace" /\ Does(r, m, session[r], "opening")
    BY DEF CloseTransport, At
  <2> HIDE DEF m
  <2>3. pc[r] \in LedgerSteps BY <2>2, <1>12 DEF LedgerSteps
  <2>4. session[r].index <= Attempts(r) BY <2>3, <1>2
  <2>5. CASE pc[r] = "close" /\ Ended(r, m, session[r])
    <3>1. WasRight(r) /\ ~session[r].disturbed =>
           /\ ~session[r].stopped
           /\ session[r].found \/ (Adds(r) /\ session[r].index < arg[r].index)
      BY <2>5 DEF WasRight, Searches
    <3>2. Found(r, m) BY <2>1 DEF Found
    <3> QED BY <3>1, <3>2, <2>1, <2>4, <2>5, <1>1, EndedMoves
  <2>6. CASE pc[r] = "replace" /\ Does(r, m, session[r], "opening")
    <3>1. ~(WasRight(r) /\ ~session[r].disturbed) BY <2>6 DEF WasRight, Searches
    <3>2. "opening" \in LedgerSteps BY DEF LedgerSteps
    <3> QED BY <3>1, <3>2, <2>1, <2>4, <2>6, <1>1, DoesMoves
  <2> QED BY <2>2, <2>5, <2>6, <1>12
<1> QED BY <1>6, <1>7, <1>8, <1>10, <1>11, <1>12 DEF LedgerStep

LEMMA LedgerCrashKeeps ==
  ASSUME FilesInv, LedgerInv, CrashFiles, CrashLedger
  PROVE  LedgerInv'
<1>1. /\ UNCHANGED <<op, arg, session>> /\ manager' = Unconnected
      /\ \A q \in Requests : /\ pc'[q] \in {"start", "done"} /\ (pc'[q] = "start" => pc[q] = "start")
                             /\ answer'[q] # answer[q] => answer'[q] = "lost"
  BY AfterCrash DEF CrashLedger, Waits
<1>2. LedgerTypeOK' BY <1>1 DEF LedgerInv, LedgerTypeOK, Unconnected
<1>3. LockInv' /\ FirstInv' BY <1>1 DEF LockInv, FirstInv, Unconnected
<1>4. \A q \in Requests : \A x, y, a : Searches(q, x, y, a)' <=> Searches(q, x, y, a)
  BY <1>1 DEF Searches, NotTried, LastPath, Adds
<1>5. ASSUME NEW q \in Requests, op[q] \in LedgerOps
      PROVE  /\ pc'[q] = "start" => session[q] = NewSession
             /\ pc'[q] \notin LedgerSteps
             /\ Alone(q)' /\ ~session[q].disturbed => Searches(q, pc'[q], session[q], answer'[q])
  <2>1. Alone(q)' => Alone(q) BY <1>1 DEF Alone, Others
  <2>2. Alone(q) /\ ~session[q].disturbed => Searches(q, pc[q], session[q], answer[q]) BY <1>5 DEF LedgerInv, SearchInv
  <2>3. Searches(q, pc[q], session[q], answer[q]) => Searches(q, pc'[q], session[q], answer'[q])
    BY <1>1 DEF Searches
  <2> QED BY <2>1, <2>2, <2>3, <1>1, <1>5 DEF LedgerInv, SearchInv, LedgerSteps
<1>6. SearchInv' BY <1>1, <1>4, <1>5 DEF SearchInv
<1> QED BY <1>2, <1>3, <1>6 DEF LedgerInv

LEMMA LedgerIsInvariant == Spec => []LedgerInv
<1>1. Init => LedgerInv
  <2> SUFFICES ASSUME Init PROVE LedgerInv OBVIOUS
  <2>1. LedgerInit BY DEF Init, MemoryInit
  <2>2. pc = [r \in Requests |-> "start"] /\ answer = [r \in Requests |-> "none"]
    BY DEF Init, ConfInit, FilesInit
  <2>3. manager = Unconnected /\ session = [r \in Requests |-> NewSession]
    BY <2>1 DEF LedgerInit, NewSession
  <2>4. NewSession \in Session
    <3>1. 1 \in 1..(Accounts + 2) BY LedgerAssumption
    <3> QED BY <3>1 DEF NewSession, Session
  <2>5. LedgerTypeOK /\ LockInv /\ FirstInv BY <2>3, <2>4 DEF LedgerTypeOK, LockInv, FirstInv, Unconnected
  <2>6. SearchInv BY <2>2, <2>3 DEF SearchInv, Searches, LedgerSteps
  <2> QED BY <2>5, <2>6 DEF LedgerInv
<1>2. FilesInv /\ LedgerInv /\ [Next]_vars => LedgerInv'
  <2> SUFFICES ASSUME FilesInv, LedgerInv, [Next]_vars PROVE LedgerInv' OBVIOUS
  <2>1. CASE UNCHANGED vars BY <2>1, LedgerStays DEF vars, requestVars
  <2>2. CASE (\E c \in Caches : Expire(c)) /\ UNCHANGED <<walletVars, tradeVars, instanceVars, ledgerVars>>
    BY <2>2, LedgerStays DEF Expire, requestVars
  <2>3. CASE Restart /\ UNCHANGED <<tradeVars, instanceVars, feeVars, ledgerVars>>
    BY <2>3, LedgerStays DEF Restart, requestVars
  <2>4. CASE Crash BY <2>4, LedgerCrashKeeps DEF Crash
  <2>5. ASSUME NEW r \in Requests, UNCHANGED <<op, arg>>,
               OwnStep(r) \/ (LoadEnds(r) /\ op[r] \in InstanceOps),
               IF op[r] \in LedgerOps THEN LedgerStep(r) ELSE UNCHANGED ledgerVars
        PROVE  LedgerInv'
    <3>1. \A q \in Requests : op[q] \in LedgerOps => op[q] \notin InstanceOps BY FamiliesAreApart
    <3>2. \A q \in Requests : pc[q] \in LedgerSteps => op[q] \in LedgerOps BY StepsOfFamilies
    <3>3. \A q \in Requests : q # r /\ op[q] \in LedgerOps => pc'[q] = pc[q] /\ answer'[q] = answer[q]
      BY <3>1, <2>5, TheOthersStay
    <3>4. \A q \in Requests : q # r /\ pc[q] \in LedgerSteps => pc'[q] = pc[q] BY <3>2, <3>3
    <3>5. CASE op[r] \in LedgerOps
      <4>1. LedgerMove(r) BY <3>5, <2>5, LedgerStepIsSo
      <4> QED BY <4>1, <3>3, <3>4, <3>5, <2>5, LedgerMoveKeeps
    <3>6. CASE op[r] \notin LedgerOps
      <4>1. \A q \in Requests : op[q] \in LedgerOps => pc'[q] = pc[q] /\ answer'[q] = answer[q] BY <3>3, <3>6
      <4>2. \A q \in Requests : pc[q] \in LedgerSteps => pc'[q] = pc[q] BY <3>2, <4>1
      <4>3. UNCHANGED ledgerVars BY <3>6, <2>5
      <4> QED BY <4>1, <4>2, <4>3, <2>5, LedgerStays
    <3> QED BY <3>5, <3>6
  <2> QED BY <2>1, <2>2, <2>3, <2>4, <2>5, NextByFamily
<1> QED BY <1>1, <1>2, FilesAreInvariant, PTL DEF Spec

\* For any number of requests, whichever meet at the device, fail or die: its lock is free when
\* nobody uses it, and an undisturbed search finds an address that one of its paths has.
THEOREM TheDeviceServes == Spec => []DeviceServes
<1>1. LedgerInv => LockIsFree
  <2> SUFFICES ASSUME LedgerInv, \A r \in Requests : pc[r] \in {"start", "done"}, manager.locked PROVE FALSE
    BY DEF LockIsFree
  <2> QED BY DEF LedgerInv, LockInv, KeepsLock
<1>2. FilesInv /\ LedgerInv => SearchIsComplete
  <2> SUFFICES ASSUME FilesInv, LedgerInv, NEW r \in Requests, op[r] \in LedgerOps, answer[r] \in {"refused", "error"},
                      ~session[r].disturbed, \A q \in Others(r) : pc[q] = "start"
               PROVE  op[r] = "ledger add" /\ arg[r].index > (IF arg[r].chain = "solana" THEN Accounts + 1 ELSE Accounts)
    BY DEF SearchIsComplete
  <2>1. Alone(r) BY DEF Alone
  <2>2. Searches(r, pc[r], session[r], answer[r]) BY <2>1 DEF LedgerInv, SearchInv
  <2>3. NotTried(r) BY <2>2 DEF Searches
  <2> QED BY <2>3 DEF NotTried, Adds, LastPath
<1> QED BY <1>1, <1>2, FilesAreInvariant, LedgerIsInvariant, PTL DEF DeviceServes

-----------------------------------------------------------------------------
\* The wallets.  Who is at which step, and what it saves where:
AddsKey(r) == op[r] = "add wallet"
AddsHardware(r) == op[r] = "add hardware"
TakesOff(r) == op[r] = "remove wallet"
Defaults(r) == op[r] = "set default"
Signs(r) == op[r] = "use wallet"
Changes(r) == op[r] \in WalletChanges
Reconfigures(r) == op[r] = "update config"

StageAt(r, p, t, n, h) ==
  /\ p = "chmod" => AddsKey(r) \/ Signs(r)
  /\ p \in {"hardware", "gone", "dir", "rest"} => TakesOff(r)
  /\ p = "isHardware" => Defaults(r)
  /\ p = "set" => AddsKey(r) \/ AddsHardware(r) \/ Defaults(r)
  /\ p \in SavingSteps /\ op[r] \in WalletOps =>
       \/ (AddsKey(r) \/ Signs(r)) /\ t = arg[r].wallet /\ n = "chmod"
       \/ AddsHardware(r) /\ t = "hardware" /\ n \in {"set", "done"}
       \/ TakesOff(r) /\ t = "hardware" /\ n = IF h.flag THEN "dir" ELSE "done"
  /\ p = "rest" => h.old \subseteq KeyFiles
WalletStage(r) == StageAt(r, pc[r], target[r], next[r], held[r])

\* A default that was told to be set is set in memory and in the file, as long as nobody
\* else began to set one.
Lone(r) ==
  \A q \in Others(r) : op[q] \in {"use wallet", "list wallets"} \/ (op[q] = "update config" /\ ~Configures(q))
WasTold(r) ==
  Defaults(r) /\ answer[r] = "ok" =>
    pc[r] = "done" /\ (Lone(r) => config.wallet = arg[r].wallet /\ configFile.wallet = arg[r].wallet)

\* What a failure leaves behind.
FailedInv ==
  /\ crashes = 0 => up
  /\ faults = 0 /\ crashes = 0 => torn = {}
  /\ entry["hardware"] = NoFile => expected["hardware"] = {}

\* As long as nothing failed or overlapped and POST /config/update was not used, one change of
\* the wallets is under way at most, and the default is a wallet that there is or the one that
\* Gateway started with, but for a request that looks for another one.
Clean == clash = {} /\ faults = 0 /\ crashes = 0 /\ \A q \in Requests : ~Configures(q)
Active(r) == Changes(r) /\ pc[r] \notin {"start", "done"}
KnownIn(x, h, n) == x = NoWallet \/ HardwareEntry(x) \in h \/ (x \in KeyFiles /\ n[x] # NoFile)
Started == config.wallet = startDefault /\ config.wallet \notin removed
DefaultAt(r, p, h, l, w, e, n) ==
  /\ p = "set" => KnownIn(arg[r].wallet, e, n)
  /\ TakesOff(r) /\ p \in SavingSteps \cup {"hardware", "gone"} => (h.flag <=> w = arg[r].wallet)
  /\ AddsHardware(r) /\ p \in SavingSteps => e \cup {HardwareEntry(arg[r].wallet)} \subseteq l
  /\ TakesOff(r) /\ p \in SavingSteps => e \ {HardwareEntry(arg[r].wallet)} \subseteq l
  /\ p = "rest" => \A a \in h.old : n[a] # NoFile
DefaultOf(r) == DefaultAt(r, pc[r], held[r], list[r], config.wallet, expected["hardware"], entry)
DefaultInv ==
  /\ \A p, q \in Requests : Active(p) /\ Active(q) => p = q
  /\ \A r \in Requests : DefaultOf(r)
  /\ \/ KnownIn(config.wallet, expected["hardware"], entry) \/ Started
     \/ \E r \in Requests : pc[r] \in {"dir", "rest"}

WalletsInv ==
  /\ WalletTypeOK /\ FailedInv
  /\ \A r \in Requests : WalletStage(r) /\ WasTold(r)
  /\ Clean => DefaultInv

LEMMA WalletOpsAre ==
  ASSUME NEW r
  PROVE  /\ Changes(r) <=> AddsKey(r) \/ AddsHardware(r) \/ TakesOff(r) \/ Defaults(r)
         /\ AddsKey(r) => ~AddsHardware(r) /\ ~TakesOff(r) /\ ~Defaults(r) /\ ~Signs(r)
         /\ AddsHardware(r) => ~TakesOff(r) /\ ~Defaults(r) /\ ~Signs(r)
         /\ TakesOff(r) => ~Defaults(r) /\ ~Signs(r)
         /\ Signs(r) => ~Defaults(r) /\ ~Changes(r)
         /\ Changes(r) \/ Signs(r) => op[r] \in WalletOps
BY DEF Changes, WalletChanges, WalletOps, AddsKey, AddsHardware, TakesOff, Defaults, Signs

\* What the steps of a request for wallets do:
Untouched == UNCHANGED <<config, configFile, configWhole, startDefault>> /\ removed' \in SUBSET KeyFiles
Still == Untouched /\ removed' \subseteq removed
Concludes(r) ==
  /\ pc[r] \in {"start", "chmod", "isHardware", "hardware"} /\ Still
  /\ \E a \in Answers : Return(r, a) /\ (a = "ok" => ~Defaults(r))
SetsConfig(r) ==
  \E c \in Configs :
    /\ SetConfig(r, c)
    /\ \/ pc[r] = "start" /\ Reconfigures(r)
       \/ pc[r] = "set" /\ c.wallet = arg[r].wallet
       \/ pc[r] = "rest" /\ c.wallet \in Remaining(r)
WritesKey(r) == pc[r] = "start" /\ AddsKey(r) /\ BeginSave(r, arg[r].wallet, Hardened, "chmod") /\ Still
GoesToSet(r) ==
  /\ \/ pc[r] = "chmod" /\ AddsKey(r) /\ KeyExists(arg[r].wallet)
     \/ pc[r] = "isHardware" /\ arg[r].wallet \in Hardware
  /\ GoTo(r, "set", Nothing) /\ Still
ListsHardware(r) ==
  /\ pc[r] = "start" /\ AddsHardware(r) /\ Still
  /\ \E n \in {"set", "done"} : BeginSave(r, "hardware", HardwareList \cup {HardwareEntry(arg[r].wallet)}, n)
LooksForDefault(r) ==
  /\ pc[r] = "start" /\ Defaults(r) /\ Still
  /\ BeginStep(r, IF KeyExists(arg[r].wallet) THEN "set" ELSE "isHardware", Nothing)
LooksForRemoved(r) ==
  /\ pc[r] = "start" /\ TakesOff(r) /\ Still
  /\ \E s \in {"hardware", "gone"} : BeginStep(r, s, [Nothing EXCEPT !.flag = IsDefault(r)])
Delists(r) ==
  /\ pc[r] = "hardware" /\ arg[r].wallet \in Hardware /\ Untouched /\ removed' = removed \cup {arg[r].wallet}
  /\ Save(r, "hardware", HardwareList \ {HardwareEntry(arg[r].wallet)}, Afterwards(r), held[r])
RemovesFile(r) ==
  /\ pc[r] = "gone" /\ Untouched /\ removed' = removed \cup {arg[r].wallet}
  /\ Unlink(r, arg[r].wallet, Afterwards(r), held[r])
Collects(r) ==
  pc[r] = "dir" /\ GoTo(r, "rest", [held[r] EXCEPT !.old = {a \in KeyFiles : KeyExists(a)}]) /\ Still
Hardens(r) == pc[r] = "start" /\ Signs(r) /\ Save(r, arg[r].wallet, Hardened, "chmod", Nothing) /\ Still
SavesWallets(r) == (Open(r) \/ Write(r) \/ \E swallows : WriteFails(r, swallows, "error")) /\ Still

LEMMA WalletForms ==
  ASSUME FilesInv, WalletsInv, NEW r \in Requests, op[r] \in WalletOps, WalletStep(r)
  PROVE  \/ Concludes(r) \/ SetsConfig(r) \/ WritesKey(r) \/ GoesToSet(r) \/ ListsHardware(r) \/ LooksForDefault(r)
         \/ LooksForRemoved(r) \/ Delists(r) \/ RemovesFile(r) \/ Collects(r) \/ Hardens(r) \/ SavesWallets(r)
<1>1. /\ arg[r].wallet \in KeyFiles /\ config \in Configs /\ removed \in SUBSET KeyFiles
      /\ Hardware \subseteq KeyFiles /\ WalletStage(r)
  <2>1. arg[r] \in WalletArgs BY ArgsAreTyped
  <2> QED BY <2>1, Readings DEF WalletArgs, WalletsInv, WalletTypeOK
<1>2. {"ok", "not_found", "refused", "error"} \subseteq Answers BY DEF Answers
<1>3. \A a \in {"not_found", "refused", "error"} :
        pc[r] \in {"start", "chmod", "isHardware", "hardware"} /\ Still /\ Return(r, a) => Concludes(r)
  BY <1>2 DEF Concludes
<1>4. pc[r] \in {"start", "chmod", "isHardware", "hardware"} /\ Still /\ ~Defaults(r) /\ Return(r, "ok") => Concludes(r)
  BY <1>2 DEF Concludes
<1>5. UNCHANGED walletVars => Still BY <1>1 DEF walletVars, Still, Untouched
<1>6. \A o : Begins(r, o) => pc[r] = "start" /\ (removed' \subseteq removed => Still)
  BY <1>1 DEF Begins, Starts, Still, Untouched
<1>7. removed' = removed => removed' \subseteq removed OBVIOUS
<1>8. pc[r] = "start" /\ Still /\ Unacceptable(r) => Concludes(r) BY <1>3 DEF Unacceptable
<1>9. CASE UpdateConfig(r)
  <2>1. pc[r] = "start" /\ Reconfigures(r) BY <1>9 DEF UpdateConfig, Starts, Reconfigures
  <2>2. \/ (Return(r, "not_found") \/ Return(r, "refused")) /\ UNCHANGED walletVars
        \/ \E v \in BOOLEAN : SetConfig(r, [config EXCEPT !.option = v])
        \/ \E w \in Configured : SetConfig(r, [config EXCEPT !.wallet = w])
    BY <1>9 DEF UpdateConfig
  <2>3. /\ \A v \in BOOLEAN : [config EXCEPT !.option = v] \in Configs
        /\ \A w \in Configured : [config EXCEPT !.wallet = w] \in Configs
    BY <1>1 DEF Configs
  <2> QED BY <2>1, <2>2, <2>3, <1>3, <1>5 DEF SetsConfig
<1>10. CASE SetDefault(r)
  <2>1. pc[r] = "set" /\ SetConfig(r, [config EXCEPT !.wallet = arg[r].wallet]) BY <1>10 DEF SetDefault, At
  <2>2. /\ [config EXCEPT !.wallet = arg[r].wallet] \in Configs
        /\ [config EXCEPT !.wallet = arg[r].wallet].wallet = arg[r].wallet
    BY <1>1 DEF Configs, Configured
  <2> QED BY <2>1, <2>2 DEF SetsConfig
<1>11. CASE NewDefault(r)
  <2>1. PICK a \in Remaining(r) : pc[r] = "rest" /\ SetConfig(r, [config EXCEPT !.wallet = a]) BY <1>11 DEF NewDefault, At
  <2>2. a \in KeyFiles \cup {NoWallet} BY <2>1, <1>1 DEF Remaining, WalletStage, StageAt
  <2>3. [config EXCEPT !.wallet = a] \in Configs /\ [config EXCEPT !.wallet = a].wallet = a
    BY <2>2, <1>1 DEF Configs, Configured
  <2> QED BY <2>1, <2>3 DEF SetsConfig
<1>12. CASE AddWallet(r)
  <2>1. AddsKey(r) BY <1>12 DEF AddWallet, Begins, Starts, AddsKey
  <2>2. \E o : Begins(r, o) BY <1>12 DEF AddWallet
  <2>3. \/ Unacceptable(r) /\ UNCHANGED removed
        \/ BeginSave(r, arg[r].wallet, Hardened, "chmod") /\ removed' = removed \ {arg[r].wallet}
    BY <1>12 DEF AddWallet
  <2>4. removed \ {arg[r].wallet} \subseteq removed OBVIOUS
  <2> QED BY <2>1, <2>2, <2>3, <2>4, <1>6, <1>7, <1>8 DEF WritesKey
<1>13. CASE Chmod(r)
  <2>1. pc[r] = "chmod" /\ Still BY <1>13, <1>5 DEF Chmod, Goes, At
  <2>2. AddsKey(r) \/ Signs(r) BY <2>1, <1>1 DEF WalletStage, StageAt
  <2>3. IF Signs(r) THEN Return(r, "ok")
        ELSE IF ~KeyExists(arg[r].wallet) THEN Return(r, "error")
        ELSE IF arg[r].default THEN GoTo(r, "set", Nothing) ELSE Return(r, "ok")
    BY <1>13 DEF Chmod, Signs
  <2>4. ~Defaults(r) BY <2>2, WalletOpsAre
  <2> QED BY <2>1, <2>2, <2>3, <2>4, <1>3, <1>4 DEF GoesToSet
<1>14. CASE AddHardware(r)
  <2>1. AddsHardware(r) BY <1>14 DEF AddHardware, Begins, Starts, AddsHardware
  <2>2. \E o : Begins(r, o) BY <1>14 DEF AddHardware
  <2>3. \/ Unacceptable(r) /\ UNCHANGED removed
        \/ /\ \E n \in {"set", "done"} : BeginSave(r, "hardware", HardwareList \cup {HardwareEntry(arg[r].wallet)}, n)
           /\ removed' = removed \ {arg[r].wallet}
    BY <1>14 DEF AddHardware
  <2>4. removed \ {arg[r].wallet} \subseteq removed OBVIOUS
  <2> QED BY <2>1, <2>2, <2>3, <2>4, <1>6, <1>7, <1>8 DEF ListsHardware
<1>15. CASE SetDefaultRoute(r)
  <2>1. Defaults(r) BY <1>15 DEF SetDefaultRoute, Begins, Starts, Defaults
  <2>2. (\E o : Begins(r, o)) /\ UNCHANGED removed BY <1>15 DEF SetDefaultRoute
  <2>3. \/ Return(r, "refused")
        \/ BeginStep(r, IF KeyExists(arg[r].wallet) THEN "set" ELSE "isHardware", Nothing)
    BY <1>15 DEF SetDefaultRoute
  <2> QED BY <2>1, <2>2, <2>3, <1>3, <1>6, <1>7 DEF LooksForDefault
<1>16. CASE IsHardware(r)
  <2>1. pc[r] = "isHardware" /\ Still BY <1>16, <1>5 DEF IsHardware, Goes, At
  <2> QED BY <2>1, <1>3, <1>16 DEF IsHardware, GoesToSet
<1>17. CASE RemoveWallet(r)
  <2>1. TakesOff(r) BY <1>17 DEF RemoveWallet, Begins, Starts, TakesOff
  <2>2. (\E o : Begins(r, o)) /\ UNCHANGED removed BY <1>17 DEF RemoveWallet
  <2>3. \/ Return(r, "refused")
        \/ \E s \in {"hardware", "gone"} : BeginStep(r, s, [Nothing EXCEPT !.flag = IsDefault(r)])
    BY <1>17 DEF RemoveWallet
  <2> QED BY <2>1, <2>2, <2>3, <1>3, <1>6, <1>7 DEF LooksForRemoved
<1>18. CASE RemoveHardware(r)
  <2>1. pc[r] = "hardware" /\ UNCHANGED <<config, configFile, configWhole, startDefault>> BY <1>18 DEF RemoveHardware, At
  <2>3. removed \cup {arg[r].wallet} \in SUBSET KeyFiles BY <1>1
  <2>4. CASE arg[r].wallet \notin Hardware
    <3>1. Return(r, "not_found") /\ UNCHANGED removed BY <1>18, <2>4 DEF RemoveHardware
    <3>2. Still BY <2>1, <3>1, <1>1 DEF Still, Untouched
    <3> QED BY <2>1, <3>1, <3>2, <1>3
  <2>5. CASE arg[r].wallet \in Hardware
    BY <2>1, <2>3, <2>5, <1>18 DEF RemoveHardware, Delists, Untouched
  <2> QED BY <2>4, <2>5
<1>19. CASE RemoveKey(r)
  <2>1. removed \cup {arg[r].wallet} \in SUBSET KeyFiles BY <1>1
  <2> QED BY <2>1, <1>19 DEF RemoveKey, At, RemovesFile, Untouched
<1>20. CASE RemainingKeys(r)
  BY <1>5, <1>20 DEF RemainingKeys, Goes, At, Collects
<1>21. CASE SignMessage(r)
  <2>1. Signs(r) BY <1>21 DEF SignMessage, Begins, Starts, Signs
  <2>2. (\E o : Begins(r, o)) /\ UNCHANGED removed BY <1>21 DEF SignMessage
  <2>3. Unacceptable(r) \/ GetWallet(r) BY <1>21 DEF SignMessage
  <2>4. GetWallet(r) => \/ Return(r, "error") \/ Return(r, "ok") \/ Save(r, arg[r].wallet, Hardened, "chmod", Nothing)
    BY DEF GetWallet
  <2>5. ~Defaults(r) BY <2>1, WalletOpsAre
  <2> QED BY <2>1, <2>2, <2>3, <2>4, <2>5, <1>3, <1>4, <1>6, <1>7, <1>8 DEF Hardens
<1>22. CASE ListWallets(r)
  <2>1. ~Defaults(r) BY <1>22 DEF ListWallets, Begins, Starts, Defaults
  <2> QED BY <2>1, <1>4, <1>6, <1>7, <1>22 DEF ListWallets
<1>23. CASE SaveWallets(r)
  BY <1>5, <1>23 DEF SaveWallets, SavesWallets
<1> QED BY <1>9, <1>10, <1>11, <1>12, <1>13, <1>14, <1>15, <1>16, <1>17, <1>18, <1>19, <1>20, <1>21, <1>22, <1>23 DEF WalletStep

LEMMA OpsStay ==
  ASSUME UNCHANGED <<op, arg>>
  PROVE  /\ \A r : (AddsKey(r)' <=> AddsKey(r)) /\ (AddsHardware(r)' <=> AddsHardware(r)) /\ (TakesOff(r)' <=> TakesOff(r))
                   /\ (Defaults(r)' <=> Defaults(r)) /\ (Signs(r)' <=> Signs(r)) /\ (Changes(r)' <=> Changes(r))
         /\ \A r, p, t, n, h : StageAt(r, p, t, n, h)' <=> StageAt(r, p, t, n, h)
<1>1. \A r : (AddsKey(r)' <=> AddsKey(r)) /\ (AddsHardware(r)' <=> AddsHardware(r)) /\ (TakesOff(r)' <=> TakesOff(r))
             /\ (Defaults(r)' <=> Defaults(r)) /\ (Signs(r)' <=> Signs(r)) /\ (Changes(r)' <=> Changes(r))
  BY DEF AddsKey, AddsHardware, TakesOff, Defaults, Signs, Changes
<1>2. \A r, p, t, n, h : StageAt(r, p, t, n, h)' <=> StageAt(r, p, t, n, h) BY <1>1 DEF StageAt
<1> QED BY <1>1, <1>2

\* A step of a request for wallets, as far as it matters without the others.
IsTold(r) ==
  Defaults(r) /\ answer'[r] = "ok" =>
    pc'[r] = "done" /\ config'.wallet = arg[r].wallet /\ configFile'.wallet = arg[r].wallet
FailsNoMore ==
  /\ UNCHANGED <<up, crashes>>
  /\ faults' = 0 => faults = 0 /\ torn' = torn
  /\ entry'["hardware"] = NoFile => entry["hardware"] = NoFile /\ expected'["hardware"] = expected["hardware"]
WalletMove(r) ==
  /\ config' \in Configs /\ configFile' \in Configs /\ configWhole' \in BOOLEAN /\ removed' \in SUBSET KeyFiles
  /\ UNCHANGED <<startDefault, op, arg>> /\ FailsNoMore
  /\ StageAt(r, pc'[r], target'[r], next'[r], held'[r])
  /\ IsTold(r) /\ pc'[r] # "start"
  /\ op[r] \in {"use wallet", "list wallets"} =>
       config'.wallet = config.wallet /\ configFile'.wallet \in {config.wallet, configFile.wallet}

\* Nobody else is at the steps of the wallets.
LEMMA OthersAreElsewhere ==
  ASSUME FilesInv', UNCHANGED op
  PROVE  \A q \in Requests : op[q] \notin WalletOps => pc'[q] \notin WalletSteps
<1>1. \A q \in Requests : pc'[q] \in {"start", "done"} \cup SavingSteps \cup StepsOf(op'[q])
  BY DEF FilesInv, LifeInv
<1> QED BY <1>1 DEF StepsOf, SavingSteps, TokenSteps, PoolSteps, WalletSteps, InstanceSteps, FeeSteps, LedgerSteps

LEMMA WalletMoveKeeps ==
  ASSUME FilesInv', WalletsInv, NEW m \in Requests, pc[m] # "done", UNCHANGED <<op, arg>>,
         \A q \in Requests : q # m /\ op[q] \in WalletOps =>
            /\ pc'[q] = pc[q] /\ held'[q] = held[q] /\ answer'[q] = answer[q]
            /\ target'[q] = target[q] /\ next'[q] = next[q],
         IF op[m] \in WalletOps THEN WalletMove(m) ELSE UNCHANGED walletVars /\ FailsNoMore
  PROVE  WalletTypeOK' /\ FailedInv' /\ \A r \in Requests : WalletStage(r)' /\ WasTold(r)'
<1>1. FailsNoMore BY DEF WalletMove
<1>2. WalletTypeOK'
  <2>1. WalletTypeOK BY DEF WalletsInv
  <2>2. CASE op[m] \in WalletOps BY <2>1, <2>2 DEF WalletMove, WalletTypeOK
  <2>3. CASE op[m] \notin WalletOps BY <2>1, <2>3 DEF walletVars, WalletTypeOK
  <2> QED BY <2>2, <2>3
<1>3. FailedInv' BY <1>1 DEF FailsNoMore, WalletsInv, FailedInv
<1>4. ASSUME NEW q \in Requests PROVE WalletStage(q)'
  <2>1. StageAt(q, pc'[q], target'[q], next'[q], held'[q])
    <3>1. CASE op[q] \notin WalletOps
      <4>1. pc'[q] \notin WalletSteps BY <3>1, OthersAreElsewhere
      <4> QED BY <4>1, <3>1 DEF StageAt, WalletSteps
    <3>2. CASE op[q] \in WalletOps /\ q = m BY <3>2 DEF WalletMove
    <3>3. CASE op[q] \in WalletOps /\ q # m
      <4>1. StageAt(q, pc[q], target[q], next[q], held[q]) BY DEF WalletsInv, WalletStage
      <4> QED BY <4>1, <3>3
    <3> QED BY <3>1, <3>2, <3>3
  <2> QED BY <2>1, OpsStay DEF WalletStage
<1>5. ASSUME NEW q \in Requests PROVE WasTold(q)'
  <2> SUFFICES ASSUME Defaults(q), answer'[q] = "ok"
               PROVE  pc'[q] = "done" /\ (Lone(q)' => config'.wallet = arg[q].wallet /\ configFile'.wallet = arg[q].wallet)
    BY OpsStay DEF WasTold
  <2>1. op[q] \in WalletOps BY WalletOpsAre
  <2>2. CASE q = m BY <2>1, <2>2 DEF WalletMove, IsTold
  <2>3. CASE q # m
    <3>1. pc'[q] = pc[q] /\ answer[q] = "ok" BY <2>1, <2>3
    <3>2. pc[q] = "done" /\ (Lone(q) => config.wallet = arg[q].wallet /\ configFile.wallet = arg[q].wallet)
      BY <3>1 DEF WalletsInv, WasTold
    <3>3. Lone(q)' => op[m] \in {"use wallet", "list wallets"} /\ Lone(q)
      <4>1. Lone(q)' => op[m] \in WalletOps BY <2>3 DEF Lone, Others, WalletOps
      <4>2. op[m] \in WalletOps => pc'[m] # "start" BY DEF WalletMove
      <4>3. \A p \in Others(q) : p # m /\ op[p] = "update config" => pc'[p] = pc[p] BY DEF Others, WalletOps
      <4>4. Lone(q)' => op[m] \in {"use wallet", "list wallets"}
        BY <2>3, <4>1, <4>2 DEF Lone, Others, Configures
      <4>5. Lone(q)' => Lone(q)
        <5> SUFFICES ASSUME Lone(q)', NEW p \in Others(q)
                     PROVE  op[p] \in {"use wallet", "list wallets"} \/ (op[p] = "update config" /\ ~Configures(p))
          BY DEF Lone
        <5>1. op[p] \in {"use wallet", "list wallets"} \/ (op[p] = "update config" /\ pc'[p] = "start")
          BY DEF Lone, Others, Configures
        <5> QED BY <5>1, <4>3, <4>4 DEF Configures
      <4> QED BY <4>4, <4>5
    <3>4. Lone(q)' => config'.wallet = config.wallet /\ configFile'.wallet \in {config.wallet, configFile.wallet}
      <4>1. op[m] \in {"use wallet", "list wallets"} => op[m] \in WalletOps BY DEF WalletOps
      <4> QED BY <3>3, <4>1 DEF WalletMove
    <3> QED BY <3>1, <3>2, <3>3, <3>4
  <2> QED BY <2>2, <2>3
<1> QED BY <1>2, <1>3, <1>4, <1>5

\* What is known at a step of a request for wallets:
LEMMA StepIsTyped ==
  ASSUME FilesInv, WalletsInv, NEW r \in Requests
  PROVE  /\ config \in Configs /\ configFile \in Configs /\ configWhole \in BOOLEAN /\ removed \in SUBSET KeyFiles
         /\ faults \in Nat /\ pc \in [Requests -> Steps \cup SavingSteps \cup {"start", "done"}]
         /\ held \in [Requests -> Holds] /\ target \in [Requests -> Names]
         /\ next \in [Requests -> Steps \cup {"start", "done"}] /\ answer \in [Requests -> Answers]
         /\ entry \in [Names -> Inodes \cup {NoFile}] /\ expected \in [Lists -> SUBSET Elements]
         /\ WalletStage(r) /\ WasTold(r) /\ "hardware" \in Names /\ "hardware" \in Lists
         /\ KeyFiles \subseteq Names \cap Lists /\ "hardware" \notin KeyFiles
BY NamesOfLists, FilesAssumption DEF FilesInv, FilesTyped, WalletsInv, WalletTypeOK

LEMMA QuietMove ==
  ASSUME FilesInv, WalletsInv, NEW r \in Requests, op[r] \in WalletOps, pc[r] # "done", pc'[r] # "start", Untouched,
         UNCHANGED <<op, arg, faults, crashes, up, torn, expected>>,
         entry'["hardware"] = entry["hardware"],
         answer'[r] = "ok" => ~Defaults(r) \/ answer[r] = "ok",
         StageAt(r, pc'[r], target'[r], next'[r], held'[r])
  PROVE  WalletMove(r)
<1>1. FailsNoMore BY DEF FailsNoMore
<1>2. Defaults(r) => answer[r] # "ok" BY StepIsTyped DEF WasTold
<1>3. IsTold(r) BY <1>2 DEF IsTold
<1> QED BY <1>1, <1>3, StepIsTyped DEF WalletMove, Untouched

LEMMA WalletStepIsSo ==
  ASSUME FilesInv, WalletsInv, NEW r \in Requests, op[r] \in WalletOps, WalletStep(r)
  PROVE  WalletMove(r) /\ pc[r] # "done"
<1>1. pc[r] # "done"
  <2>1. "done" \notin WalletSteps BY DEF WalletSteps
  <2> QED BY <2>1, WalletForms DEF Concludes, SetsConfig, WritesKey, GoesToSet, ListsHardware, LooksForDefault,
        LooksForRemoved, Delists, RemovesFile, Collects, Hardens, SavesWallets, Open, Write, WriteFails, At
<1>2. /\ \A a \in {"start", "done"} \cup WalletSteps : a \notin SavingSteps
      /\ "open" \notin WalletSteps /\ "done" \notin WalletSteps /\ "start" \notin WalletSteps
      /\ {"chmod", "hardware", "gone", "dir", "rest", "isHardware", "set"} \subseteq WalletSteps
  BY DEF WalletSteps, SavingSteps
<1>3. WalletStage(r) /\ StageAt(r, pc[r], target[r], next[r], held[r]) BY StepIsTyped DEF WalletStage
<1>4. CASE Concludes(r)
  <2>1. PICK a \in Answers : Return(r, a) /\ (a = "ok" => ~Defaults(r)) BY <1>4 DEF Concludes
  <2>2. pc'[r] = "done" /\ answer'[r] = a BY <2>1, StepIsTyped DEF Return, Answer
  <2>3. UNCHANGED <<op, arg, faults, crashes, up, torn, expected, entry>> BY <2>1 DEF Return, fileVars, faultVars
  <2>4. StageAt(r, pc'[r], target'[r], next'[r], held'[r]) BY <2>2, <1>2 DEF StageAt
  <2> QED BY <1>1, <1>4, <2>1, <2>2, <2>3, <2>4, QuietMove DEF Concludes, Still
<1>5. CASE SetsConfig(r)
  <2>1. PICK c \in Configs :
          /\ SetConfig(r, c)
          /\ \/ pc[r] = "start" /\ Reconfigures(r)
             \/ pc[r] = "set" /\ c.wallet = arg[r].wallet
             \/ pc[r] = "rest" /\ c.wallet \in Remaining(r)
    BY <1>5 DEF SetsConfig
  <2>2. /\ config' = c /\ UNCHANGED <<op, arg, up, crashes, startDefault, removed, torn, entry, expected>>
        /\ pc'[r] = "done"
        /\ \/ configFile' = c /\ configWhole' = TRUE /\ faults' = faults
           \/ faults' = faults + 1 /\ answer'[r] = "error" /\ configWhole' \in {configWhole, FALSE} /\ configFile' = configFile
    BY <2>1, StepIsTyped DEF SetConfig, Answer, Saved, fileVars
  <2>3. StageAt(r, pc'[r], target'[r], next'[r], held'[r]) BY <2>2, <1>2 DEF StageAt
  <2>4. faults' = 0 => faults = 0
    <3>1. faults \in Nat BY StepIsTyped
    <3>2. faults' = faults \/ faults' = faults + 1 BY <2>2
    <3> QED BY <3>1, <3>2
  <2>5. FailsNoMore BY <2>2, <2>4 DEF FailsNoMore
  <2>6. /\ Defaults(r) => pc[r] = "set"
        /\ op[r] \notin {"use wallet", "list wallets"}
    <3>1. pc[r] = "rest" => TakesOff(r) BY <1>3 DEF StageAt
    <3>2. pc[r] = "set" => AddsKey(r) \/ AddsHardware(r) \/ Defaults(r) BY <1>3 DEF StageAt
    <3> QED BY <2>1, <3>1, <3>2 DEF AddsKey, AddsHardware, TakesOff, Defaults, Reconfigures
  <2>7. IsTold(r)
    <3> SUFFICES ASSUME Defaults(r), answer'[r] = "ok"
                 PROVE  pc'[r] = "done" /\ config'.wallet = arg[r].wallet /\ configFile'.wallet = arg[r].wallet
      BY DEF IsTold
    <3>1. c.wallet = arg[r].wallet BY <2>1, <2>6
    <3> QED BY <3>1, <2>2
  <2> QED BY <1>1, <2>2, <2>3, <2>5, <2>6, <2>7, StepIsTyped DEF WalletMove
<1>6. CASE WritesKey(r)
  <2>1. /\ UNCHANGED <<op, arg, faults, crashes, up, torn, expected, entry, answer>>
        /\ pc'[r] = "open" /\ next'[r] = "chmod" /\ target'[r] = SavesTo(arg[r].wallet)
    BY <1>6, StepIsTyped DEF WritesKey, BeginSave, faultVars
  <2>2. target'[r] = arg[r].wallet
    <3>1. arg[r] \in WalletArgs BY ArgsAreTyped
    <3>2. arg[r].wallet \in KeyFiles BY <3>1 DEF WalletArgs
    <3>3. arg[r].wallet \notin {"tokens", "pools"} BY <3>2, FilesAssumption
    <3> QED BY <3>2, <3>3, <2>1, NamesOfLists
  <2>3. StageAt(r, pc'[r], target'[r], next'[r], held'[r]) BY <1>2, <1>6, <2>1, <2>2 DEF StageAt, WritesKey
  <2> QED BY <1>1, <1>6, <2>1, <2>3, QuietMove DEF WritesKey, Still
<1>7. CASE GoesToSet(r)
  <2>1. /\ UNCHANGED <<op, arg, faults, crashes, up, torn, expected, entry, answer>> /\ pc'[r] = "set"
    BY <1>7, StepIsTyped DEF GoesToSet, GoTo, fileVars, faultVars
  <2>2. AddsKey(r) \/ Defaults(r) BY <1>3, <1>7 DEF StageAt, GoesToSet
  <2>3. StageAt(r, pc'[r], target'[r], next'[r], held'[r]) BY <1>2, <2>1, <2>2 DEF StageAt
  <2> QED BY <1>1, <1>7, <2>1, <2>3, QuietMove DEF GoesToSet, Still
<1>8. CASE ListsHardware(r)
  <2>1. PICK n \in {"set", "done"} : BeginSave(r, "hardware", HardwareList \cup {HardwareEntry(arg[r].wallet)}, n)
    BY <1>8 DEF ListsHardware
  <2>2. /\ UNCHANGED <<op, arg, faults, crashes, up, torn, expected, entry, answer>>
        /\ pc'[r] = "open" /\ next'[r] = n /\ target'[r] = SavesTo("hardware")
    BY <2>1, StepIsTyped DEF BeginSave, faultVars
  <2>3. target'[r] = "hardware" BY <2>2, NamesOfLists
  <2>4. StageAt(r, pc'[r], target'[r], next'[r], held'[r]) BY <1>2, <1>8, <2>2, <2>3 DEF StageAt, ListsHardware
  <2> QED BY <1>1, <1>8, <2>2, <2>4, QuietMove DEF ListsHardware, Still
<1>9. CASE LooksForDefault(r)
  <2>1. /\ UNCHANGED <<op, arg, faults, crashes, up, torn, expected, entry, answer>>
        /\ pc'[r] \in {"set", "isHardware"} /\ Defaults(r)
    BY <1>9, StepIsTyped DEF LooksForDefault, BeginStep, faultVars
  <2>2. StageAt(r, pc'[r], target'[r], next'[r], held'[r]) BY <1>2, <2>1 DEF StageAt
  <2> QED BY <1>1, <1>9, <2>1, <2>2, QuietMove DEF LooksForDefault, Still
<1>10. CASE LooksForRemoved(r)
  <2>1. /\ UNCHANGED <<op, arg, faults, crashes, up, torn, expected, entry, answer>>
        /\ pc'[r] \in {"hardware", "gone"} /\ TakesOff(r)
    BY <1>10, StepIsTyped DEF LooksForRemoved, BeginStep, faultVars
  <2>2. StageAt(r, pc'[r], target'[r], next'[r], held'[r]) BY <1>2, <2>1 DEF StageAt
  <2> QED BY <1>1, <1>10, <2>1, <2>2, QuietMove DEF LooksForRemoved, Still
<1>11. CASE Delists(r)
  <2>1. /\ UNCHANGED <<op, arg, faults, crashes, up, torn, expected, entry, answer>>
        /\ pc'[r] = "open" /\ next'[r] = Afterwards(r) /\ target'[r] = SavesTo("hardware") /\ held'[r] = held[r]
    BY <1>11, StepIsTyped DEF Delists, Save, faultVars
  <2>2. target'[r] = "hardware" BY <2>1, NamesOfLists
  <2>3. TakesOff(r) BY <1>3, <1>11 DEF StageAt, Delists
  <2>4. StageAt(r, pc'[r], target'[r], next'[r], held'[r]) BY <1>2, <2>1, <2>2, <2>3 DEF StageAt, Afterwards
  <2> QED BY <1>1, <1>11, <2>1, <2>4, QuietMove DEF Delists
<1>12. CASE RemovesFile(r)
  <2>1. /\ UNCHANGED <<op, arg, faults, crashes, up, torn, expected>>
        /\ entry' = [entry EXCEPT ![arg[r].wallet] = NoFile]
        /\ pc'[r] = Afterwards(r)
    BY <1>12, StepIsTyped DEF RemovesFile, Unlink, faultVars
  <2>2. TakesOff(r) /\ ~Defaults(r) BY <1>3, <1>12, WalletOpsAre DEF StageAt, RemovesFile
  <2>3. entry'["hardware"] = entry["hardware"]
    <3>1. arg[r] \in WalletArgs BY ArgsAreTyped
    <3>2. arg[r].wallet # "hardware" BY <3>1, StepIsTyped DEF WalletArgs
    <3> QED BY <3>2, <2>1, StepIsTyped
  <2>4. Afterwards(r) \in {"dir", "done"} BY DEF Afterwards
  <2>5. StageAt(r, pc'[r], target'[r], next'[r], held'[r]) BY <1>2, <2>1, <2>2, <2>4 DEF StageAt
  <2> QED BY <1>1, <1>12, <2>1, <2>2, <2>3, <2>4, <2>5, QuietMove DEF RemovesFile
<1>13. CASE Collects(r)
  <2>1. /\ UNCHANGED <<op, arg, faults, crashes, up, torn, expected, entry, answer>> /\ pc'[r] = "rest"
        /\ held'[r].old = {a \in KeyFiles : KeyExists(a)}
    <3>1. held[r] \in Holds BY StepIsTyped
    <3>2. [held[r] EXCEPT !.old = {a \in KeyFiles : KeyExists(a)}].old = {a \in KeyFiles : KeyExists(a)}
      BY <3>1 DEF Holds
    <3> QED BY <1>13, <3>2, StepIsTyped DEF Collects, GoTo, fileVars, faultVars
  <2>2. TakesOff(r) BY <1>3, <1>13 DEF StageAt, Collects
  <2>3. StageAt(r, pc'[r], target'[r], next'[r], held'[r]) BY <1>2, <2>1, <2>2 DEF StageAt
  <2> QED BY <1>1, <1>13, <2>1, <2>3, QuietMove DEF Collects, Still
<1>14. CASE Hardens(r)
  <2>1. /\ UNCHANGED <<op, arg, faults, crashes, up, torn, expected, entry, answer>>
        /\ pc'[r] = "open" /\ next'[r] = "chmod" /\ target'[r] = SavesTo(arg[r].wallet) /\ Signs(r)
    BY <1>14, StepIsTyped DEF Hardens, Save, faultVars
  <2>2. target'[r] = arg[r].wallet
    <3>1. arg[r] \in WalletArgs BY ArgsAreTyped
    <3>2. arg[r].wallet \in KeyFiles BY <3>1 DEF WalletArgs
    <3>3. arg[r].wallet \notin {"tokens", "pools"} BY <3>2, FilesAssumption
    <3> QED BY <3>2, <3>3, <2>1, NamesOfLists
  <2>3. StageAt(r, pc'[r], target'[r], next'[r], held'[r]) BY <1>2, <2>1, <2>2 DEF StageAt
  <2> QED BY <1>1, <1>14, <2>1, <2>3, QuietMove DEF Hardens, Still
<1>15. CASE SavesWallets(r)
  <2>1. pc[r] \in SavingSteps BY <1>15 DEF SavesWallets, Open, Write, WriteFails, At, SavingSteps
  <2>2. /\ \/ (AddsKey(r) \/ Signs(r)) /\ target[r] = arg[r].wallet /\ next[r] = "chmod"
           \/ AddsHardware(r) /\ target[r] = "hardware" /\ next[r] \in {"set", "done"}
           \/ TakesOff(r) /\ target[r] = "hardware" /\ next[r] = IF held[r].flag THEN "dir" ELSE "done"
        /\ ~Defaults(r)
    BY <2>1, <1>3, WalletOpsAre DEF StageAt
  <2>3. target[r] \in Lists
    <3>1. arg[r] \in WalletArgs BY ArgsAreTyped
    <3>2. arg[r].wallet \in KeyFiles BY <3>1 DEF WalletArgs
    <3> QED BY <3>2, <2>2, StepIsTyped
  <2>4. pc'[r] = "write" \/ pc'[r] = next[r] \/ pc'[r] = "done"
    BY <1>15, <2>3, StepIsTyped DEF SavesWallets, Open, Write, WriteFails, Throws, Answer
  <2>5. UNCHANGED <<op, arg, target, next, held, up, crashes>> /\ Untouched
    BY <1>15 DEF SavesWallets, Open, Write, WriteFails, faultVars, Still
  <2>6. StageAt(r, pc'[r], target'[r], next'[r], held'[r])
    BY <2>2, <2>4, <2>5, <1>2 DEF StageAt
  <2>7. IsTold(r) BY <2>2 DEF IsTold
  <2>8. FailsNoMore
    <3>1. CASE Open(r)
      <4>1. UNCHANGED <<faults, torn, expected>> BY <3>1 DEF Open, faultVars
      <4>2. entry' = [entry EXCEPT ![target[r]] = IF entry[target[r]] = NoFile THEN Fresh ELSE entry[target[r]]]
        BY <3>1 DEF Open
      <4>3. entry[target[r]] = NoFile => Fresh # NoFile
        <5>1. fd \in [Requests -> Inodes \cup {NoFile}] /\ target[r] \in Names BY StepIsTyped DEF FilesInv, FilesTyped
        <5>2. NoFile \notin Inodes BY DEF NoFile, Inodes
        <5> QED BY <5>1, <5>2, InodeIsLeft, StepIsTyped
      <4>4. entry'["hardware"] = NoFile => entry["hardware"] = NoFile BY <4>2, <4>3, StepIsTyped
      <4> QED BY <4>1, <4>4, <2>5 DEF FailsNoMore
    <3>2. CASE Write(r)
      <4>1. UNCHANGED <<faults, torn, entry>> BY <3>2 DEF Write, faultVars
      <4>2. pc[r] = "write" BY <3>2 DEF Write, At
      <4>3. fd[r] # NoFile BY <4>2 DEF FilesInv, DescriptorInv
      <4>4. entry["hardware"] = NoFile => expected'["hardware"] = expected["hardware"]
        BY <3>2, <4>3, StepIsTyped DEF Write, Changed
      <4> QED BY <4>1, <4>4, <2>5 DEF FailsNoMore
    <3>3. CASE \E swallows : WriteFails(r, swallows, "error")
      <4>1. faults' = faults + 1 /\ UNCHANGED <<entry, expected>> BY <3>3, <2>3 DEF WriteFails
      <4>2. faults' # 0 BY <4>1, StepIsTyped
      <4> QED BY <4>1, <4>2, <2>5 DEF FailsNoMore
    <3> QED BY <1>15, <3>1, <3>2, <3>3 DEF SavesWallets
  <2>9. pc'[r] # "start" BY <2>2, <2>4
  <2> QED BY <1>1, <2>5, <2>6, <2>7, <2>8, <2>9, StepIsTyped DEF WalletMove, Untouched
<1> QED BY <1>4, <1>5, <1>6, <1>7, <1>8, <1>9, <1>10, <1>11, <1>12, <1>13, <1>14, <1>15, WalletForms

\* Failures and overlaps are not forgotten; and a request for something else leaves the key
\* files and the list of the hardware wallets as they are.
LEMMA FaultsGrow ==
  ASSUME FilesInv, NEW m \in Requests, OwnStep(m) \/ LoadEnds(m)
  PROVE  /\ UNCHANGED <<op, arg, up, crashes>> /\ clash \subseteq clash'
         /\ faults' = 0 => faults = 0 /\ torn' = torn
<1>1. faults \in Nat BY DEF FilesInv, FilesTyped
<1>2. CASE LoadEnds(m) BY <1>2 DEF LoadEnds, fileVars, faultVars
<1>3. CASE Between(m)
  <2>1. faults' \in Nat /\ faults <= faults' BY <1>3 DEF Between
  <2>2. faults' = 0 => faults = 0 BY <2>1, <1>1
  <2> QED BY <2>2, <1>3 DEF Between
<1>4. CASE BeginsSave(m) BY <1>4 DEF BeginsSave, faultVars
<1>5. CASE Removes(m) BY <1>5 DEF Removes, Unlink, faultVars
<1>6. CASE SavesOn(m)
  <2>1. CASE Open(m) \/ Write(m) BY <2>1 DEF Open, Write, faultVars
  <2>2. ASSUME NEW swallows, NEW s, Rename(m, swallows, s) PROVE UNCHANGED <<op, arg, clash, torn, up, faults, crashes>>
    BY <2>2 DEF Rename, faultVars
  <2>3. ASSUME NEW swallows, NEW s, WriteFails(m, swallows, s)
        PROVE  UNCHANGED <<op, arg, clash, up, crashes>> /\ faults' # 0
    <3>1. faults' = faults + 1 BY <2>3 DEF WriteFails
    <3>2. faults' # 0 BY <3>1, <1>1
    <3> QED BY <3>2, <2>3 DEF WriteFails
  <2> QED BY <1>6, <2>1, <2>2, <2>3 DEF SavesOn
<1> QED BY <1>2, <1>3, <1>4, <1>5, <1>6 DEF OwnStep

LEMMA OthersLeaveTheWallets ==
  ASSUME FilesInv, ListsInv, NEW m \in Requests, op[m] \notin WalletOps, OwnStep(m) \/ LoadEnds(m)
  PROVE  \A d \in KeyFiles \cup {"hardware"} : entry'[d] = entry[d] /\ expected'[d] = expected[d]
<1>1. FilesTyped /\ KeyFiles \cup {"hardware"} \subseteq Names \cap Lists
  BY NamesOfLists DEF FilesInv
<1>2. \A d \in KeyFiles \cup {"hardware"} : ListOf(d) = d /\ d \notin {"tokens", "pools"}
  BY <1>1, NamesOfLists, FilesAssumption
<1>3. CASE LoadEnds(m) \/ Between(m) \/ BeginsSave(m) BY <1>3 DEF LoadEnds, Between, BeginsSave, fileVars
<1>4. CASE SavesOn(m)
  <2>1. pc[m] \in SavingSteps BY <1>4 DEF SavesOn, Open, Write, Rename, WriteFails, At, SavingSteps
  <2>2. op[m] \in Savers BY <2>1 DEF FilesInv, LifeInv
  <2>3. op[m] \in TokenOps \cup PoolUsers BY <2>2 DEF Savers, PoolUsers
  <2>4. ListOf(target[m]) \in {"tokens", "pools"} BY <2>1, <2>3 DEF ListsInv, SaverOf
  <2>5. target[m] \notin KeyFiles \cup {"hardware"} BY <2>4, <1>2
  <2>6. CASE Open(m) BY <2>6, <2>5, <1>1 DEF Open, FilesTyped
  <2>7. CASE Write(m) BY <2>7, <2>5, <1>1 DEF Write, Changed, FilesTyped
  <2>8. ASSUME NEW swallows, NEW s, Rename(m, swallows, s) \/ WriteFails(m, swallows, s)
        PROVE  \A d \in KeyFiles \cup {"hardware"} : entry'[d] = entry[d] /\ expected'[d] = expected[d]
    BY <2>4, <2>5, <2>8, <1>1, <1>2 DEF Rename, WriteFails, Changed, FilesTyped
  <2> QED BY <1>4, <2>6, <2>7, <2>8 DEF SavesOn
<1>5. ~Removes(m) BY DEF Removes
<1> QED BY <1>3, <1>4, <1>5 DEF OwnStep

\* While nothing failed, and nobody writes it, the list of the hardware wallets is what it should be.
LEMMA HardwareIsExpected ==
  ASSUME FilesInv, ListsInv, WalletsInv, Clean, \A q \in Requests : Active(q) => pc[q] \notin SavingSteps
  PROVE  /\ HardwareList = expected["hardware"] /\ expected["hardware"] \subseteq Entries
         /\ \A a : a \in Hardware <=> HardwareEntry(a) \in expected["hardware"]
<1>1. "hardware" \in Lists /\ "hardware" \notin DOMAIN Temp /\ "hardware" \notin KeyFiles /\ "hardware" \notin {"tokens", "pools"}
  BY NamesOfLists, FilesAssumption
<1>2. expected["hardware"] \subseteq Entries
  BY <1>1 DEF FilesInv, ContentInv, ListsFor
<1>3. torn = {} /\ clash = {} /\ (entry["hardware"] = NoFile => expected["hardware"] = {})
  BY DEF WalletsInv, FailedInv, Clean
<1>4. \A q \in Requests : ~(pc[q] = "write" /\ target[q] = "hardware")
  <2> SUFFICES ASSUME NEW q \in Requests, pc[q] = "write", target[q] = "hardware" PROVE FALSE OBVIOUS
  <2>1. pc[q] \in SavingSteps /\ ListOf(target[q]) = "hardware" BY <1>1, NamesOfLists DEF SavingSteps
  <2>2. op[q] \in Savers BY <2>1 DEF FilesInv, LifeInv
  <2>3. op[q] \notin TokenOps \cup PoolUsers BY <2>1, <1>1 DEF ListsInv, SaverOf
  <2>4. op[q] \in WalletOps BY <2>2, <2>3 DEF Savers, PoolUsers
  <2>5. AddsKey(q) \/ Signs(q) \/ AddsHardware(q) \/ TakesOff(q)
    BY <2>1, <2>4 DEF WalletsInv, WalletStage, StageAt
  <2>6. AddsKey(q) \/ Signs(q) => target[q] = arg[q].wallet
    BY <2>1, <2>4, WalletOpsAre DEF WalletsInv, WalletStage, StageAt
  <2>7. arg[q].wallet \in KeyFiles
    <3>1. arg[q] \in WalletArgs BY <2>4, ArgsAreTyped
    <3> QED BY <3>1 DEF WalletArgs
  <2>8. AddsHardware(q) \/ TakesOff(q) BY <2>5, <2>6, <2>7, <1>1
  <2>9. Changes(q) BY <2>8, WalletOpsAre
  <2>10. pc[q] \notin {"start", "done"} OBVIOUS
  <2>11. Active(q) BY <2>9, <2>10 DEF Active
  <2> QED BY <2>1, <2>11
<1>5. entry["hardware"] # NoFile => data[entry["hardware"]] = Whole(expected["hardware"])
  BY <1>1, <1>3, <1>4 DEF FilesInv, SavedInv
<1>6. Hardware = {h.wallet : h \in expected["hardware"]}
  <2>1. CASE entry["hardware"] = NoFile BY <2>1, <1>3 DEF Hardware, IsWhole
  <2>2. CASE entry["hardware"] # NoFile BY <2>2, <1>5 DEF Hardware, IsWhole, ReadOf, Whole
  <2> QED BY <2>1, <2>2
<1>7. \A h \in expected["hardware"] : h = HardwareEntry(h.wallet)
  BY <1>2 DEF Entries, HardwareEntry
<1>8. \A a : HardwareEntry(a).wallet = a BY DEF HardwareEntry
<1>9. \A a : a \in Hardware <=> HardwareEntry(a) \in expected["hardware"]
  BY <1>6, <1>7, <1>8
<1>10. HardwareList = expected["hardware"] BY <1>6, <1>7, <1>9 DEF HardwareList
<1> QED BY <1>2, <1>9, <1>10

\* Who is at no step of a change has nothing to do with the default.
LEMMA IdleHasNoPart ==
  ASSUME FilesInv, WalletsInv, NEW q \in Requests, ~Active(q)
  PROVE  pc[q] \notin {"set", "dir", "rest", "hardware", "gone"}
<1>1. pc[q] \in {"set", "dir", "rest", "hardware", "gone"} => Changes(q)
  BY WalletOpsAre DEF WalletsInv, WalletStage, StageAt
<1> QED BY <1>1 DEF Active

LEMMA IdleHasNone ==
  ASSUME NEW r, NEW p, NEW t, NEW n, NEW h, StageAt(r, p, t, n, h), ~Changes(r) \/ p \in {"start", "done"}
  PROVE  \A l, w, e, m : DefaultAt(r, p, h, l, w, e, m)
<1>1. p \in {"set", "dir", "rest", "hardware", "gone"} => Changes(r) BY WalletOpsAre DEF StageAt
<1>2. p \notin {"set", "dir", "rest", "hardware", "gone"} BY <1>1
<1>3. TakesOff(r) \/ AddsHardware(r) => p \notin SavingSteps BY WalletOpsAre DEF SavingSteps
<1> QED BY <1>2, <1>3 DEF DefaultAt

\* A step of the one that changes the wallets, and of any other:
ActiveMove(m) ==
  /\ \A q \in Requests : q # m => ~Active(q)
  /\ DefaultAt(m, pc'[m], held'[m], list'[m], config'.wallet, expected'["hardware"], entry')
  /\ KnownIn(config'.wallet, expected'["hardware"], entry') \/ Started' \/ pc'[m] \in {"dir", "rest"}
PassiveMove ==
  /\ config'.wallet = config.wallet /\ expected'["hardware"] = expected["hardware"]
  /\ startDefault' = startDefault /\ removed' \subseteq removed
  /\ \A a \in KeyFiles : entry[a] # NoFile => entry'[a] # NoFile
ActiveNext(m) == Changes(m) /\ pc'[m] \notin {"start", "done"}

LEMMA DefaultMoveKeeps ==
  ASSUME FilesInv, WalletsInv, DefaultInv, NEW m \in Requests, UNCHANGED <<op, arg>>,
         \A q \in Requests : q # m /\ op[q] \in WalletOps =>
            pc'[q] = pc[q] /\ held'[q] = held[q] /\ list'[q] = list[q],
         \A q \in Requests : WalletStage(q)',
         IF Active(m) \/ ActiveNext(m) THEN ActiveMove(m) ELSE PassiveMove
  PROVE  DefaultInv'
<1>1. /\ \A q : (Changes(q)' <=> Changes(q)) /\ (Active(q)' <=> ActiveNext(q))
      /\ \A x, h, n : KnownIn(x, h, n)' <=> KnownIn(x, h, n)
      /\ \A r, p, h, l, w, e, n : DefaultAt(r, p, h, l, w, e, n)' <=> DefaultAt(r, p, h, l, w, e, n)
  <2>1. \A q : (Changes(q)' <=> Changes(q)) /\ (Active(q)' <=> ActiveNext(q)) BY OpsStay DEF Active, ActiveNext
  <2>2. \A x, h, n : KnownIn(x, h, n)' <=> KnownIn(x, h, n) BY DEF KnownIn
  <2>3. \A r : (TakesOff(r)' <=> TakesOff(r)) /\ (AddsHardware(r)' <=> AddsHardware(r)) BY OpsStay
  <2>4. \A r, p, h, l, w, e, n : DefaultAt(r, p, h, l, w, e, n)' <=> DefaultAt(r, p, h, l, w, e, n)
    BY <2>2, <2>3 DEF DefaultAt
  <2> QED BY <2>1, <2>2, <2>4
<1>2. \A q \in Requests : q # m => (ActiveNext(q) <=> Active(q))
  <2>1. \A q : Changes(q) => op[q] \in WalletOps BY WalletOpsAre
  <2> QED BY <2>1 DEF ActiveNext, Active
<1>3. \A q \in Requests : ~ActiveNext(q) =>
        DefaultAt(q, pc'[q], held'[q], list'[q], config'.wallet, expected'["hardware"], entry')
  <2> SUFFICES ASSUME NEW q \in Requests, ~ActiveNext(q)
               PROVE  DefaultAt(q, pc'[q], held'[q], list'[q], config'.wallet, expected'["hardware"], entry')
    OBVIOUS
  <2>1. StageAt(q, pc'[q], target'[q], next'[q], held'[q]) BY OpsStay DEF WalletStage
  <2> QED BY <2>1, IdleHasNone DEF ActiveNext
<1>4. (\A q \in Requests : DefaultAt(q, pc'[q], held'[q], list'[q], config'.wallet, expected'["hardware"], entry'))
      <=> \A q \in Requests : DefaultOf(q)'
  BY <1>1 DEF DefaultOf
<1>5. CASE Active(m) \/ ActiveNext(m)
  <2>1. ActiveMove(m) BY <1>5
  <2>2. \A q \in Requests : q # m => ~ActiveNext(q) BY <2>1, <1>2 DEF ActiveMove
  <2>3. \A q \in Requests : DefaultOf(q)' BY <2>1, <2>2, <1>3, <1>4 DEF ActiveMove
  <2>4. \A p, q \in Requests : Active(p)' /\ Active(q)' => p = q BY <2>2, <1>1
  <2>5. \/ KnownIn(config.wallet, expected["hardware"], entry)' \/ Started'
        \/ \E r \in Requests : pc'[r] \in {"dir", "rest"}
    BY <2>1, <1>1 DEF ActiveMove
  <2> QED BY <2>3, <2>4, <2>5 DEF DefaultInv
<1>6. CASE ~Active(m) /\ ~ActiveNext(m)
  <2>1. PassiveMove BY <1>6
  <2>2. \A x : KnownIn(x, expected["hardware"], entry) => KnownIn(x, expected'["hardware"], entry')
    BY <2>1 DEF PassiveMove, KnownIn
  <2>3. ASSUME NEW q \in Requests, Active(q)
        PROVE  DefaultAt(q, pc'[q], held'[q], list'[q], config'.wallet, expected'["hardware"], entry')
    <3>1. pc'[q] = pc[q] /\ held'[q] = held[q] /\ list'[q] = list[q] BY <2>3, <1>6, WalletOpsAre DEF Active
    <3>2. DefaultAt(q, pc[q], held[q], list[q], config.wallet, expected["hardware"], entry)
      BY DEF DefaultInv, DefaultOf
    <3>3. config'.wallet = config.wallet /\ expected'["hardware"] = expected["hardware"] BY <2>1 DEF PassiveMove
    <3>4. pc[q] = "rest" => held[q].old \subseteq KeyFiles BY DEF WalletsInv, WalletStage, StageAt
    <3>5. pc[q] = "rest" => \A a \in held[q].old : entry'[a] # NoFile
      BY <3>2, <3>4, <2>1 DEF DefaultAt, PassiveMove
    <3> QED BY <3>1, <3>2, <3>3, <3>5, <2>2 DEF DefaultAt
  <2>4. \A q \in Requests : DefaultOf(q)'
    <3>1. \A q \in Requests : ActiveNext(q) => Active(q) BY <1>2, <1>6
    <3> QED BY <2>3, <3>1, <1>3, <1>4
  <2>5. \A p, q \in Requests : Active(p)' /\ Active(q)' => p = q BY <1>1, <1>2, <1>6 DEF DefaultInv
  <2>6. \/ KnownIn(config.wallet, expected["hardware"], entry)' \/ Started'
        \/ \E r \in Requests : pc'[r] \in {"dir", "rest"}
    <3>1. /\ KnownIn(config.wallet, expected["hardware"], entry) => KnownIn(config.wallet, expected["hardware"], entry)'
          /\ Started => Started'
      BY <2>1, <2>2, <1>1 DEF PassiveMove, Started
    <3>2. ASSUME NEW r \in Requests, pc[r] \in {"dir", "rest"} PROVE pc'[r] = pc[r]
      <4>1. Active(r) BY <3>2, IdleHasNoPart
      <4> QED BY <4>1, <1>6, WalletOpsAre DEF Active
    <3> QED BY <3>1, <3>2 DEF DefaultInv
  <2> QED BY <2>4, <2>5, <2>6 DEF DefaultInv
<1> QED BY <1>5, <1>6

\* The steps of the requests for wallets are such steps, as long as nothing fails or overlaps.
LEMMA WalletStepDefaults ==
  ASSUME FilesInv, ListsInv, WalletsInv, Clean, Clean', DefaultInv, NEW m \in Requests, op[m] \in WalletOps,
         ~Reconfigures(m), WalletStep(m)
  PROVE  IF Active(m) \/ ActiveNext(m) THEN ActiveMove(m) ELSE PassiveMove
<1> DEFINE E == expected["hardware"]
           W == arg[m].wallet
           Fine == KnownIn(config'.wallet, expected'["hardware"], entry') \/ Started' \/ pc'[m] \in {"dir", "rest"}
           At0 == DefaultAt(m, pc'[m], held'[m], list'[m], config'.wallet, expected'["hardware"], entry')
           Kept == config' = config /\ startDefault' = startDefault /\ removed' \subseteq removed
<1> USE DEF SavingSteps
<1>1. W \in KeyFiles /\ W # "hardware"
  <2>1. arg[m] \in WalletArgs BY ArgsAreTyped
  <2> QED BY <2>1, StepIsTyped DEF WalletArgs
<1>2. /\ faults = 0 /\ faults' = 0 /\ clash = {} /\ clash' = {} BY DEF Clean
<1>3. /\ list \in [Requests -> SUBSET Elements] /\ fd \in [Requests -> Inodes \cup {NoFile}]
  BY DEF FilesInv, FilesTyped
<1>4. StageAt(m, pc[m], target[m], next[m], held[m]) BY StepIsTyped DEF WalletStage
<1>5. /\ Changes(m) => ~Signs(m)
      /\ AddsKey(m) \/ AddsHardware(m) \/ TakesOff(m) \/ Defaults(m) <=> Changes(m)
      /\ AddsKey(m) => ~AddsHardware(m) /\ ~TakesOff(m) /\ ~Defaults(m)
      /\ AddsHardware(m) => ~TakesOff(m) /\ ~Defaults(m)
      /\ TakesOff(m) => ~Defaults(m)
  BY WalletOpsAre
<1>6. /\ pc[m] \in {"chmod"} => AddsKey(m) \/ Signs(m)
      /\ pc[m] \in {"hardware", "gone", "dir", "rest"} => TakesOff(m)
      /\ pc[m] = "isHardware" => Defaults(m)
      /\ pc[m] = "set" => AddsKey(m) \/ AddsHardware(m) \/ Defaults(m)
  BY <1>4 DEF StageAt
\* Who changes the wallets is alone in it.
<1>7. ASSUME Active(m) \/ (pc[m] = "start" /\ Changes(m) /\ clash' = Marked(m))
      PROVE  \A q \in Requests : q # m => ~Active(q)
  <2>1. CASE Active(m) BY <2>1 DEF DefaultInv
  <2>2. CASE clash' = Marked(m)
    <3>1. ~Overlaps(m) BY <2>2, <1>2 DEF Marked
    <3> QED BY <3>1 DEF Overlaps, Active, Changes
  <2> QED BY <1>7, <2>1, <2>2
<1>8. (\A q \in Requests : q # m => ~Active(q)) =>
        KnownIn(config.wallet, E, entry) \/ Started \/ pc[m] \in {"dir", "rest"}
  <2> SUFFICES ASSUME \A q \in Requests : q # m => ~Active(q), pc[m] \notin {"dir", "rest"}
               PROVE  KnownIn(config.wallet, E, entry) \/ Started
    OBVIOUS
  <2>1. \A q \in Requests : pc[q] \notin {"dir", "rest"} BY IdleHasNoPart
  <2> QED BY <2>1 DEF DefaultInv
<1>9. (\A q \in Requests : q # m => ~Active(q)) /\ pc[m] \notin SavingSteps =>
        HardwareList = E /\ \A a : a \in Hardware <=> HardwareEntry(a) \in E
  BY HardwareIsExpected
<1>10. DefaultAt(m, pc[m], held[m], list[m], config.wallet, E, entry) BY DEF DefaultInv, DefaultOf
<1>11. At0 /\ Fine /\ (\A q \in Requests : q # m => ~Active(q)) => ActiveMove(m) BY DEF ActiveMove
\* A step that leaves the wallets as they are:
<1>12. ASSUME config'.wallet = config.wallet, UNCHANGED <<entry, expected, startDefault>>, removed' \subseteq removed
       PROVE  /\ PassiveMove /\ (Started => Started')
              /\ \A x : KnownIn(x, expected'["hardware"], entry') <=> KnownIn(x, E, entry)
  BY <1>12 DEF PassiveMove, Started
<1>13. pc \in [Requests -> Steps \cup SavingSteps \cup {"start", "done"}] /\ held \in [Requests -> Holds]
       /\ entry \in [Names -> Inodes \cup {NoFile}] /\ expected \in [Lists -> SUBSET Elements]
       /\ "hardware" \in Names \cap Lists /\ KeyFiles \subseteq Names \cap Lists
  BY StepIsTyped
<1>14. Active(m) <=> Changes(m) /\ pc[m] \notin {"start", "done"} BY DEF Active
<1>15. CASE Concludes(m)
  <2>1. /\ pc'[m] = "done" /\ UNCHANGED <<entry, expected>> /\ Kept
        /\ pc[m] \notin {"dir", "rest"} /\ UNCHANGED <<held, target, next>>
    BY <1>13, <1>15 DEF Concludes, Return, Answer, fileVars, Still, Untouched
  <2>2. StageAt(m, pc'[m], target'[m], next'[m], held'[m])
    BY <2>1 DEF StageAt
  <2>3. At0 BY <2>1, <2>2, IdleHasNone
  <2>4. ~ActiveNext(m) BY <2>1 DEF ActiveNext
  <2>5. Active(m) => ActiveMove(m)
    <3>1. Active(m) => Fine BY <2>1, <1>7, <1>8, <1>12
    <3> QED BY <3>1, <2>3, <1>7, <1>11
  <2> QED BY <2>1, <2>4, <2>5, <1>12
<1>16. CASE SetsConfig(m)
  <2>1. PICK c \in Configs :
          /\ SetConfig(m, c)
          /\ \/ pc[m] = "start" /\ Reconfigures(m)
             \/ pc[m] = "set" /\ c.wallet = W
             \/ pc[m] = "rest" /\ c.wallet \in Remaining(m)
    BY <1>16 DEF SetsConfig
  <2>2. config' = c /\ pc'[m] = "done" /\ UNCHANGED <<entry, expected, held, target, next>>
    BY <2>1, <1>13 DEF SetConfig, Answer, fileVars
  <2>3. StageAt(m, pc'[m], target'[m], next'[m], held'[m]) BY <2>2 DEF StageAt
  <2>4. At0 BY <2>2, <2>3, IdleHasNone
  <2>5. ~ActiveNext(m) BY <2>2 DEF ActiveNext
  <2>6. ASSUME Active(m) PROVE ActiveMove(m)
    <3>1. \A q \in Requests : q # m => ~Active(q) BY <2>6, <1>7
    <3>2. pc[m] \notin SavingSteps BY <2>1
    <3>3. pc[m] = "set" => KnownIn(c.wallet, E, entry) BY <2>1, <1>10 DEF DefaultAt
    <3>4. ASSUME pc[m] = "rest" PROVE KnownIn(c.wallet, E, entry)
      <4>1. c.wallet \in Remaining(m) BY <2>1, <3>4
      <4>2. c.wallet \in held[m].old \/ c.wallet \in Hardware \/ c.wallet = NoWallet BY <4>1 DEF Remaining
      <4>3. \A a \in held[m].old : a \in KeyFiles /\ entry[a] # NoFile BY <3>4, <1>4, <1>10 DEF DefaultAt, StageAt
      <4> QED BY <4>2, <4>3, <3>1, <3>2, <1>9 DEF KnownIn
    <3>5. pc[m] # "start" BY <2>6, <1>14
    <3>6. KnownIn(c.wallet, E, entry) BY <2>1, <3>3, <3>4, <3>5
    <3>7. Fine BY <3>6, <2>2
    <3> QED BY <3>1, <3>7, <2>4, <1>11
  <2>7. Active(m) BY <2>1, <1>5, <1>6, <1>14
  <2> QED BY <2>6, <2>7
<1>17. CASE WritesKey(m)
  <2>1. /\ pc[m] = "start" /\ AddsKey(m) /\ clash \subseteq Marked(m) /\ Marked(m) \subseteq clash'
        /\ UNCHANGED <<entry, expected>> /\ pc'[m] = "open" /\ Kept
    BY <1>13, <1>17 DEF WritesKey, BeginSave, Marked, Still, Untouched
  <2>2. clash' = Marked(m) BY <2>1, <1>2
  <2>3. \A q \in Requests : q # m => ~Active(q) BY <2>1, <2>2, <1>5, <1>7
  <2>4. Fine BY <2>1, <2>3, <1>8, <1>12
  <2>5. At0 BY <2>1, <1>5 DEF DefaultAt
  <2>6. ActiveNext(m) BY <2>1, <1>5 DEF ActiveNext
  <2> QED BY <2>3, <2>4, <2>5, <2>6, <1>11
<1>18. CASE GoesToSet(m)
  <2>1. /\ pc[m] \in {"chmod", "isHardware"} /\ UNCHANGED <<entry, expected>> /\ pc'[m] = "set" /\ Kept
        /\ KeyExists(W) \/ W \in Hardware
    BY <1>13, <1>18 DEF GoesToSet, GoTo, fileVars, Still, Untouched
  <2>2. AddsKey(m) \/ Defaults(m) BY <1>6, <1>18 DEF GoesToSet
  <2>3. Active(m) BY <2>1, <2>2, <1>5, <1>14
  <2>4. \A q \in Requests : q # m => ~Active(q) BY <2>3, <1>7
  <2>5. KnownIn(W, E, entry) BY <2>1, <2>4, <1>1, <1>9 DEF KnownIn, KeyExists
  <2>6. At0 BY <2>1, <2>2, <2>5, <1>5 DEF DefaultAt
  <2>7. Fine BY <2>1, <2>4, <1>8, <1>12
  <2> QED BY <2>3, <2>4, <2>6, <2>7, <1>11
<1>19. CASE ListsHardware(m)
  <2>1. /\ pc[m] = "start" /\ AddsHardware(m) /\ clash \subseteq Marked(m) /\ Marked(m) \subseteq clash'
        /\ UNCHANGED <<entry, expected>> /\ pc'[m] = "open" /\ Kept
        /\ list'[m] = HardwareList \cup {HardwareEntry(W)}
    BY <1>3, <1>13, <1>19 DEF ListsHardware, BeginSave, Marked, Still, Untouched
  <2>2. clash' = Marked(m) BY <2>1, <1>2
  <2>3. \A q \in Requests : q # m => ~Active(q) BY <2>1, <2>2, <1>5, <1>7
  <2>4. Fine BY <2>1, <2>3, <1>8, <1>12
  <2>5. HardwareList = E BY <2>1, <2>3, <1>9
  <2>6. At0 BY <2>1, <2>5, <1>5 DEF DefaultAt
  <2>7. ActiveNext(m) BY <2>1, <1>5 DEF ActiveNext
  <2> QED BY <2>3, <2>4, <2>6, <2>7, <1>11
<1>20. CASE LooksForDefault(m)
  <2>1. /\ pc[m] = "start" /\ Defaults(m) /\ clash' = Marked(m)
        /\ UNCHANGED <<entry, expected>> /\ Kept
        /\ pc'[m] = IF KeyExists(W) THEN "set" ELSE "isHardware"
    BY <1>13, <1>20 DEF LooksForDefault, BeginStep, Still, Untouched
  <2>2. \A q \in Requests : q # m => ~Active(q) BY <2>1, <1>5, <1>7
  <2>3. Fine BY <2>1, <2>2, <1>8, <1>12
  <2>4. pc'[m] = "set" => KnownIn(W, E, entry) BY <2>1, <1>1 DEF KnownIn, KeyExists
  <2>5. At0 BY <2>1, <2>4, <1>5 DEF DefaultAt
  <2>6. ActiveNext(m) BY <2>1, <1>5 DEF ActiveNext
  <2> QED BY <2>2, <2>3, <2>5, <2>6, <1>11
<1>21. CASE LooksForRemoved(m)
  <2>1. PICK s \in {"hardware", "gone"} : BeginStep(m, s, [Nothing EXCEPT !.flag = IsDefault(m)])
    BY <1>21 DEF LooksForRemoved
  <2>2. /\ pc[m] = "start" /\ TakesOff(m) /\ clash' = Marked(m)
        /\ UNCHANGED <<entry, expected>> /\ Kept
        /\ pc'[m] = s /\ held'[m] = [Nothing EXCEPT !.flag = IsDefault(m)]
    BY <2>1, <1>13, <1>21 DEF LooksForRemoved, BeginStep, Still, Untouched
  <2>3. \A q \in Requests : q # m => ~Active(q) BY <2>2, <1>5, <1>7
  <2>4. Fine BY <2>2, <2>3, <1>8, <1>12
  <2>5. held'[m].flag <=> config.wallet = W BY <2>2 DEF Nothing, IsDefault
  <2>6. At0 BY <2>2, <2>5, <1>5 DEF DefaultAt
  <2>7. ActiveNext(m) BY <2>2, <1>5 DEF ActiveNext
  <2> QED BY <2>3, <2>4, <2>6, <2>7, <1>11
<1>22. CASE Delists(m)
  <2>1. /\ pc[m] = "hardware" /\ TakesOff(m) /\ UNCHANGED <<entry, expected>> /\ config' = config
        /\ startDefault' = startDefault /\ removed' = removed \cup {W} /\ W \in Hardware
        /\ pc'[m] = "open" /\ held'[m] = held[m] /\ list'[m] = HardwareList \ {HardwareEntry(W)}
    BY <1>3, <1>6, <1>13, <1>22 DEF Delists, Save, Untouched
  <2>2. Active(m) BY <2>1, <1>5, <1>14
  <2>3. \A q \in Requests : q # m => ~Active(q) BY <2>2, <1>7
  <2>4. HardwareEntry(W) \in E BY <2>1, <2>3, <1>9
  <2>5. Fine
    <3>1. CASE config.wallet = W BY <3>1, <2>1, <2>4 DEF KnownIn
    <3>2. CASE config.wallet # W
      <4>1. KnownIn(config.wallet, E, entry) \/ Started BY <2>1, <2>3, <1>8
      <4>2. KnownIn(config.wallet, E, entry) => KnownIn(config'.wallet, expected'["hardware"], entry') BY <2>1
      <4>3. Started => Started' BY <3>2, <2>1 DEF Started
      <4> QED BY <4>1, <4>2, <4>3
    <3> QED BY <3>1, <3>2
  <2>6. HardwareList = E BY <2>1, <2>3, <1>9
  <2>7. At0 BY <2>1, <2>6, <1>5, <1>10 DEF DefaultAt
  <2> QED BY <2>2, <2>3, <2>5, <2>7, <1>11
<1>23. CASE RemovesFile(m)
  <2>1. /\ pc[m] = "gone" /\ TakesOff(m) /\ UNCHANGED expected /\ config' = config
        /\ startDefault' = startDefault /\ removed' = removed \cup {W}
        /\ entry' = [entry EXCEPT ![W] = NoFile] /\ UNCHANGED <<target, next>>
        /\ pc'[m] = (IF held[m].flag THEN "dir" ELSE "done")
    BY <1>6, <1>13, <1>23 DEF RemovesFile, Unlink, Untouched, Afterwards
  <2>2. Active(m) BY <2>1, <1>5, <1>14
  <2>3. \A q \in Requests : q # m => ~Active(q) BY <2>2, <1>7
  <2>4. At0 BY <2>1 DEF DefaultAt
  <2>5. Fine
    <3>1. CASE held[m].flag BY <3>1, <2>1
    <3>2. CASE ~held[m].flag
      <4>1. config.wallet # W BY <3>2, <2>1, <1>10 DEF DefaultAt
      <4>2. KnownIn(config.wallet, E, entry) \/ Started BY <2>1, <2>3, <1>8
      <4>3. KnownIn(config.wallet, E, entry) => KnownIn(config'.wallet, expected'["hardware"], entry')
        BY <4>1, <2>1, <1>13 DEF KnownIn
      <4>4. Started => Started' BY <4>1, <2>1 DEF Started
      <4> QED BY <4>2, <4>3, <4>4
    <3> QED BY <3>1, <3>2
  <2> QED BY <2>2, <2>3, <2>4, <2>5, <1>11
<1>24. CASE Collects(m)
  <2>1. /\ pc[m] = "dir" /\ TakesOff(m) /\ UNCHANGED <<entry, expected>> /\ Kept
        /\ pc'[m] = "rest" /\ held'[m] = [held[m] EXCEPT !.old = {a \in KeyFiles : KeyExists(a)}]
    BY <1>6, <1>13, <1>24 DEF Collects, GoTo, fileVars, Still, Untouched
  <2>2. held'[m].old = {a \in KeyFiles : KeyExists(a)} BY <2>1, <1>13 DEF Holds
  <2>3. Active(m) BY <2>1, <1>5, <1>14
  <2>4. \A q \in Requests : q # m => ~Active(q) BY <2>3, <1>7
  <2>5. At0 BY <2>1, <2>2 DEF DefaultAt, KeyExists
  <2> QED BY <2>1, <2>3, <2>4, <2>5, <1>11
<1>25. CASE Hardens(m)
  <2>1. Signs(m) /\ UNCHANGED <<entry, expected>> /\ Kept BY <1>25 DEF Hardens, Save, Still, Untouched
  <2>2. ~Active(m) /\ ~ActiveNext(m) BY <2>1, <1>5 DEF Active, ActiveNext
  <2> QED BY <2>1, <2>2, <1>12
<1>26. CASE SavesWallets(m)
  <2>1. pc[m] \in SavingSteps /\ Kept /\ UNCHANGED <<held, list, target, next, op, arg>>
    BY <1>26 DEF SavesWallets, Open, Write, WriteFails, At, Still, Untouched
  <2>2. \/ (AddsKey(m) \/ Signs(m)) /\ target[m] = W /\ next[m] = "chmod"
        \/ AddsHardware(m) /\ target[m] = "hardware" /\ next[m] \in {"set", "done"}
        \/ TakesOff(m) /\ target[m] = "hardware" /\ next[m] = IF held[m].flag THEN "dir" ELSE "done"
    BY <2>1, <1>4 DEF StageAt
  <2>3. target[m] \in Names /\ target[m] \in Lists BY <2>2, <1>1, <1>13
  <2>4. Active(m) <=> ~Signs(m) BY <2>1, <2>2, <1>5, <1>14
  <2>5. Signs(m) => ~ActiveNext(m) BY <1>5 DEF ActiveNext
  <2>6. pc[m] \notin {"dir", "rest"} BY <2>1
  <2>7. CASE Open(m)
    <3>1. /\ UNCHANGED expected /\ pc'[m] = "write"
          /\ entry' = [entry EXCEPT ![target[m]] = IF entry[target[m]] = NoFile THEN Fresh ELSE entry[target[m]]]
      BY <2>7, <1>13 DEF Open
    <3>2. entry[target[m]] = NoFile => Fresh # NoFile
      <4>1. NoFile \notin Inodes BY DEF NoFile, Inodes
      <4> QED BY <4>1, <2>3, <1>3, <1>13, InodeIsLeft
    <3>3. \A n \in Names : entry[n] # NoFile => entry'[n] # NoFile BY <3>1, <3>2, <1>13
    <3>7. Started => Started' BY <2>1 DEF Started
    <3>4. \A x : KnownIn(x, E, entry) => KnownIn(x, expected'["hardware"], entry') BY <3>1, <3>3, <1>13 DEF KnownIn
    <3>5. PassiveMove BY <2>1, <3>1, <3>3, <1>13 DEF PassiveMove
    <3>6. ASSUME Active(m) PROVE ActiveMove(m)
      <4>1. \A q \in Requests : q # m => ~Active(q) BY <3>6, <1>7
      <4>2. Fine BY <4>1, <3>4, <3>7, <2>1, <2>6, <1>8
      <4>3. At0 BY <3>1, <2>1, <1>10 DEF DefaultAt
      <4> QED BY <4>1, <4>2, <4>3, <1>11
    <3> QED BY <3>5, <3>6, <2>4, <2>5
  <2>8. CASE Write(m)
    <3>1. pc[m] = "write" /\ UNCHANGED entry /\ pc'[m] = next[m] BY <2>8, <2>3, <1>13 DEF Write, At
    <3>2. expected' = [expected EXCEPT ![target[m]] = list[m]]
      <4>1. ListOf(target[m]) \notin clash BY <1>2
      <4>2. entry[target[m]] = fd[m] BY <4>1, <3>1 DEF FilesInv, WrittenInv
      <4> QED BY <4>2, <2>3, <2>8 DEF Write, Changed
    <3>3. CASE Signs(m)
      <4>1. target[m] # "hardware" BY <3>3, <2>2, <1>1, WalletOpsAre
      <4>2. PassiveMove BY <4>1, <3>1, <3>2, <2>1, <1>13 DEF PassiveMove
      <4> QED BY <4>2, <3>3, <2>4, <2>5
    <3>4. CASE ~Signs(m)
      <4>1. Active(m) /\ \A q \in Requests : q # m => ~Active(q) BY <3>4, <2>4, <1>7
      <4>2. KnownIn(config.wallet, E, entry) \/ Started BY <4>1, <2>6, <1>8
      <4>6. Started => Started' BY <2>1 DEF Started
      <4>3. CASE AddsKey(m)
        <5>1. target[m] # "hardware" /\ pc'[m] = "chmod" BY <4>3, <2>2, <3>1, <1>1, <1>5
        <5>2. expected'["hardware"] = E BY <5>1, <3>2, <1>13
        <5>3. Fine BY <5>2, <4>2, <4>6, <3>1, <2>1
        <5>4. At0 BY <5>1 DEF DefaultAt
        <5> QED BY <4>1, <5>3, <5>4, <1>11
      <4>4. CASE AddsHardware(m)
        <5>1. target[m] = "hardware" /\ pc'[m] \in {"set", "done"} BY <4>4, <3>4, <2>2, <3>1, <1>5
        <5>2. expected'["hardware"] = list[m] BY <5>1, <3>2, <1>13
        <5>3. E \cup {HardwareEntry(W)} \subseteq list[m] BY <4>4, <2>1, <1>10 DEF DefaultAt
        <5>4. Fine BY <5>2, <5>3, <4>2, <4>6, <3>1, <2>1 DEF KnownIn
        <5>5. KnownIn(W, expected'["hardware"], entry') BY <5>2, <5>3 DEF KnownIn
        <5>6. At0 BY <5>1, <5>5 DEF DefaultAt
        <5> QED BY <4>1, <5>4, <5>6, <1>11
      <4>5. CASE TakesOff(m)
        <5>1. target[m] = "hardware" /\ pc'[m] = (IF held[m].flag THEN "dir" ELSE "done")
          BY <4>5, <3>4, <2>2, <3>1, <1>5
        <5>2. expected'["hardware"] = list[m] BY <5>1, <3>2, <1>13
        <5>3. E \ {HardwareEntry(W)} \subseteq list[m] /\ (held[m].flag <=> config.wallet = W)
          BY <4>5, <2>1, <1>10 DEF DefaultAt
        <5>4. At0 BY <5>1 DEF DefaultAt
        <5>5. Fine
          <6>1. CASE held[m].flag BY <6>1, <5>1
          <6>2. CASE ~held[m].flag
            <7>1. HardwareEntry(config.wallet) # HardwareEntry(W) BY <6>2, <5>3 DEF HardwareEntry
            <7> QED BY <7>1, <5>2, <5>3, <4>2, <4>6, <3>1, <2>1 DEF KnownIn
          <6> QED BY <6>1, <6>2
        <5> QED BY <4>1, <5>4, <5>5, <1>11
      <4> QED BY <4>1, <4>3, <4>4, <4>5, <2>2, <3>4, <2>4
    <3> QED BY <3>3, <3>4
  <2>9. \A s : ~WriteFails(m, s, "error") BY <1>2 DEF WriteFails
  <2> QED BY <1>26, <2>7, <2>8, <2>9 DEF SavesWallets
<1> QED BY <1>15, <1>16, <1>17, <1>18, <1>19, <1>20, <1>21, <1>22, <1>23, <1>24, <1>25, <1>26, WalletForms

LEMMA WalletsStay ==
  ASSUME WalletsInv, UNCHANGED <<requestVars, fileVars, faultVars, walletVars>>
  PROVE  WalletsInv'
<1>1. UNCHANGED <<op, arg, pc, held, target, list, next, answer, entry, expected, clash, torn, up, faults, crashes,
                  config, configFile, configWhole, startDefault, removed>>
  BY DEF requestVars, fileVars, faultVars, walletVars
<1>2. WalletTypeOK' /\ FailedInv' BY <1>1 DEF WalletsInv, WalletTypeOK, FailedInv
<1>3. \A q \in Requests : WalletStage(q)' /\ WasTold(q)'
  <2>1. \A q : Lone(q)' <=> Lone(q) BY <1>1 DEF Lone, Others, Configures
  <2> QED BY <1>1, <2>1, OpsStay DEF WalletsInv, WalletStage, WasTold
<1>4. /\ Clean' <=> Clean
      /\ \A q : Active(q)' <=> Active(q)
      /\ \A x, h, n : KnownIn(x, h, n)' <=> KnownIn(x, h, n)
  BY <1>1, OpsStay DEF Clean, Active, KnownIn, Configures
<1>5. \A r : DefaultOf(r)' <=> DefaultOf(r) BY <1>1, <1>4, OpsStay DEF DefaultOf, DefaultAt
<1>6. /\ KnownIn(config.wallet, expected["hardware"], entry)' <=> KnownIn(config.wallet, expected["hardware"], entry)
      /\ Started' <=> Started
  BY <1>1, <1>4 DEF Started
<1>7. DefaultInv' <=> DefaultInv BY <1>1, <1>4, <1>5, <1>6 DEF DefaultInv
<1> QED BY <1>2, <1>3, <1>4, <1>7 DEF WalletsInv

\* A crash, and a start, end what was known of the default; but one that was told to be set is
\* in the file.
LEMMA WalletsRestart ==
  ASSUME FilesInv, WalletsInv, UNCHANGED <<op, arg, held, target, next, entry, expected>>,
         crashes' # 0, config' \in {config, configFile}, configFile' = configFile, configWhole' \in BOOLEAN,
         startDefault' \in {startDefault, configFile.wallet}, removed' = removed,
         \A q \in Requests : /\ pc'[q] \in {pc[q], "start", "done"} /\ (pc[q] = "done" => pc'[q] = "done")
                             /\ pc'[q] = "start" => pc[q] = "start"
                             /\ answer'[q] = "ok" => answer[q] = "ok"
  PROVE  WalletsInv'
<1>1. WalletTypeOK' BY DEF WalletsInv, WalletTypeOK, Configs
<1>2. FailedInv' BY DEF WalletsInv, FailedInv
<1>3. ASSUME NEW q \in Requests PROVE WalletStage(q)'
  <2>1. StageAt(q, pc[q], target[q], next[q], held[q]) BY DEF WalletsInv, WalletStage
  <2>2. StageAt(q, pc'[q], target'[q], next'[q], held'[q]) BY <2>1 DEF StageAt, SavingSteps
  <2> QED BY <2>2, OpsStay DEF WalletStage
<1>4. ASSUME NEW q \in Requests PROVE WasTold(q)'
  <2>1. Lone(q)' => Lone(q) BY DEF Lone, Others, Configures
  <2> QED BY <2>1, OpsStay DEF WalletsInv, WasTold
<1>5. ~Clean' BY DEF Clean
<1> QED BY <1>1, <1>2, <1>3, <1>4, <1>5 DEF WalletsInv

LEMMA WalletsBegin ==
  ASSUME Init
  PROVE  WalletsInv
<1>1. FilesInv BY InitIsSo
<1>2. WalletsInit BY DEF Init, MemoryInit
<1>3. /\ pc = [r \in Requests |-> "start"] /\ answer = [r \in Requests |-> "none"] /\ torn = {} /\ up = TRUE
  BY DEF Init, ConfInit, FilesInit
<1>4. WalletTypeOK BY <1>2 DEF WalletsInit, WalletTypeOK, Configs
<1>5. "hardware" \in Lists /\ "hardware" \in Names /\ "hardware" \notin KeyFiles BY NamesOfLists, FilesAssumption
<1>6. entry["hardware"] = NoFile => expected["hardware"] = {}
  <2>1. PICK tokens \in TokenLists, pools \in PoolLists, hardware \in SUBSET {HardwareEntry(a) : a \in KeyFiles},
             keys \in [KeyFiles -> {{}} \cup {{c} : c \in Ciphers}], missing \in SUBSET {"pools", "hardware"} :
          /\ "hardware" \in missing => hardware = {}
          /\ ConfInit(tokens, pools, hardware, keys, {"tokens", "pools", "hardware"} \ missing)
    BY DEF Init
  <2>2. expected["hardware"] = hardware BY <2>1, <1>5 DEF ConfInit, FilesInit
  <2>3. entry["hardware"] = IF "hardware" \in missing THEN NoFile ELSE FirstInode["hardware"]
    BY <2>1, <1>5 DEF ConfInit, FilesInit
  <2>4. FirstInode["hardware"] # NoFile BY <1>5, FirstInodeIsOne DEF NoFile
  <2> QED BY <2>1, <2>2, <2>3, <2>4
<1>7. FailedInv BY <1>3, <1>6 DEF FailedInv
<1>8. \A q \in Requests : pc[q] = "start" /\ answer[q] = "none" BY <1>3
<1>9. \A q \in Requests : WalletStage(q) /\ WasTold(q) BY <1>8 DEF WalletStage, StageAt, SavingSteps, WasTold
<1>10. ASSUME Clean PROVE DefaultInv
  <2>1. Started BY <1>2 DEF WalletsInit, Started
  <2>2. \A q \in Requests : ~Active(q) BY <1>8 DEF Active
  <2>3. \A q \in Requests : DefaultOf(q) BY <1>8 DEF DefaultOf, DefaultAt, SavingSteps
  <2> QED BY <2>1, <2>2, <2>3 DEF DefaultInv
<1> QED BY <1>4, <1>7, <1>9, <1>10 DEF WalletsInv

LEMMA WalletsAreInvariant == Spec => []WalletsInv
<1>1. Init => WalletsInv BY WalletsBegin
<1>2. FilesInv /\ FilesInv' /\ ListsInv /\ WalletsInv /\ [Next]_vars => WalletsInv'
  <2> SUFFICES ASSUME FilesInv, FilesInv', ListsInv, WalletsInv, [Next]_vars PROVE WalletsInv' OBVIOUS
  <2>1. CASE UNCHANGED vars BY <2>1, WalletsStay DEF vars
  <2>2. CASE (\E c \in Caches : Expire(c)) /\ UNCHANGED <<walletVars, tradeVars, instanceVars, ledgerVars>>
    BY <2>2, WalletsStay DEF Expire
  <2>3. CASE Restart
    <3>1. /\ UNCHANGED <<op, arg, pc, held, target, next, answer, entry, expected, crashes>> /\ ~up
          /\ config' = configFile /\ startDefault' = configFile.wallet /\ UNCHANGED <<configFile, configWhole, removed>>
      BY <2>3 DEF Restart, requestVars, fileVars
    <3>2. crashes # 0 BY <3>1 DEF WalletsInv, FailedInv
    <3>3. configWhole' \in BOOLEAN BY <3>1 DEF WalletsInv, WalletTypeOK
    <3> QED BY <3>1, <3>2, <3>3, WalletsRestart
  <2>4. CASE Crash
    <3>1. CrashFiles /\ CrashWallets BY <2>4 DEF Crash
    <3>2. UNCHANGED <<op, arg, held, target, next, entry, expected>> /\ crashes' = crashes + 1 BY <3>1 DEF CrashFiles
    <3>3. crashes' # 0
      <4>1. crashes \in Nat BY DEF FilesInv, FilesTyped
      <4> QED BY <4>1, <3>2
    <3>4. UNCHANGED <<config, configFile, startDefault, removed>> /\ configWhole' \in BOOLEAN
      BY <3>1 DEF CrashWallets, WalletsInv, WalletTypeOK
    <3>5. \A q \in Requests : /\ pc'[q] \in {"start", "done"} /\ (pc[q] = "done" => pc'[q] = "done")
                              /\ pc'[q] = "start" => pc[q] = "start"
                              /\ answer'[q] = "ok" => answer[q] = "ok"
      BY <3>1, AfterCrash DEF Waits
    <3> QED BY <3>2, <3>3, <3>4, <3>5, WalletsRestart
  <2>5. ASSUME NEW r \in Requests, UNCHANGED <<op, arg>>, pc[r] # "done",
               OwnStep(r) \/ (LoadEnds(r) /\ op[r] \in InstanceOps),
               IF op[r] \in WalletOps THEN WalletStep(r) ELSE UNCHANGED walletVars
        PROVE  WalletsInv'
    <3>1. \A q \in Requests : op[q] \in WalletOps => op[q] \notin InstanceOps BY FamiliesAreApart
    <3>2. \A q \in Requests : q # r /\ op[q] \in WalletOps =>
            /\ pc'[q] = pc[q] /\ held'[q] = held[q] /\ answer'[q] = answer[q]
            /\ target'[q] = target[q] /\ list'[q] = list[q] /\ next'[q] = next[q]
      BY <3>1, <2>5, TheOthersStay
    <3>3. /\ UNCHANGED <<up, crashes>> /\ clash \subseteq clash'
          /\ faults' = 0 => faults = 0 /\ torn' = torn
      BY <2>5, FaultsGrow
    <3>4. op[r] \in WalletOps => WalletMove(r) BY <2>5, WalletStepIsSo
    <3>5. op[r] \notin WalletOps => \A d \in KeyFiles \cup {"hardware"} : entry'[d] = entry[d] /\ expected'[d] = expected[d]
      BY <2>5, OthersLeaveTheWallets
    <3>6. op[r] \notin WalletOps => UNCHANGED walletVars /\ FailsNoMore BY <2>5, <3>3, <3>5 DEF FailsNoMore
    <3>7. WalletTypeOK' /\ FailedInv' /\ \A q \in Requests : WalletStage(q)' /\ WasTold(q)'
      BY <3>2, <3>4, <3>6, <2>5, WalletMoveKeeps
    <3>8. ASSUME Clean' PROVE DefaultInv'
      <4>1. op[r] \in WalletOps => pc'[r] # "start" BY <3>4 DEF WalletMove
      <4>2. \A q \in Requests : Reconfigures(q) => q # r /\ pc'[q] = pc[q]
        BY <3>2, <3>8, <4>1, <2>5 DEF Clean, Configures, WalletOps, Reconfigures
      <4>3. \A q \in Requests : (Configures(q) => Configures(q)') /\ (op[q] \notin WalletOps => ~Reconfigures(q))
        BY <4>2, <2>5 DEF Configures, Reconfigures, WalletOps
      <4>4. Clean BY <3>3, <3>8, <4>3 DEF Clean
      <4>5. DefaultInv BY <4>4 DEF WalletsInv
      <4>6. CASE op[r] \in WalletOps
        <5>1. ~Reconfigures(r) BY <4>2
        <5>2. IF Active(r) \/ ActiveNext(r) THEN ActiveMove(r) ELSE PassiveMove
          BY <4>4, <4>5, <4>6, <5>1, <3>8, <2>5, WalletStepDefaults
        <5> QED BY <5>2, <4>5, <3>2, <3>7, <2>5, DefaultMoveKeeps
      <4>7. CASE op[r] \notin WalletOps
        <5>1. ~Active(r) /\ ~ActiveNext(r) BY <4>7, WalletOpsAre DEF Active, ActiveNext
        <5>2. PassiveMove BY <4>7, <3>5, <3>6 DEF PassiveMove, walletVars
        <5> QED BY <5>1, <5>2, <4>5, <3>2, <3>7, <2>5, DefaultMoveKeeps
      <4> QED BY <4>6, <4>7
    <3> QED BY <3>7, <3>8 DEF WalletsInv
  <2> QED BY <2>1, <2>2, <2>3, <2>4, <2>5, NextByFamily
<1> QED BY <1>1, <1>2, FilesAreInvariant, ListsAreInvariant, PTL DEF Spec

\* The default wallet is sound: when nothing is under way, nothing failed, no changes of the
\* wallets overlapped and POST /config/update was not used, it is a wallet that there is, or the
\* one that Gateway started with and that nobody removed; and one that was told to be set is
\* the default as long as nobody sets another, whatever fails, and after a restart too.
THEOREM TheDefaultIsSound == Spec => []DefaultIsSound
<1>1. FilesInv /\ ListsInv /\ WalletsInv => DefaultIsKnown
  <2> SUFFICES ASSUME FilesInv, ListsInv, WalletsInv, Quiescent, faults + crashes = 0, clash = {},
                      \A q \in Requests : ~Configures(q)
               PROVE  \/ config.wallet \in {NoWallet} \cup Hardware \cup {a \in KeyFiles : KeyExists(a)}
                      \/ config.wallet = startDefault /\ config.wallet \notin removed
    BY DEF DefaultIsKnown
  <2>1. faults = 0 /\ crashes = 0
    <3>1. faults \in Nat /\ crashes \in Nat BY DEF FilesInv, FilesTyped
    <3> QED BY <3>1
  <2>2. Clean BY <2>1 DEF Clean
  <2>3. \A q \in Requests : pc[q] \in {"start", "done"} BY DEF Quiescent
  <2>4. \A q \in Requests : ~Active(q) BY <2>3 DEF Active
  <2>5. KnownIn(config.wallet, expected["hardware"], entry) \/ Started BY <2>2, <2>3 DEF WalletsInv, DefaultInv
  <2>6. \A a : a \in Hardware <=> HardwareEntry(a) \in expected["hardware"] BY <2>2, <2>4, HardwareIsExpected
  <2> QED BY <2>5, <2>6 DEF Started, KnownIn, KeyExists
<1>2. WalletsInv => DefaultAsTold
  <2> SUFFICES ASSUME WalletsInv, NEW r \in Requests, Defaults(r), answer[r] = "ok", Lone(r)
               PROVE  config.wallet = arg[r].wallet
    BY DEF DefaultAsTold, Defaults, Lone
  <2> QED BY DEF WalletsInv, WasTold
<1> QED BY <1>1, <1>2, FilesAreInvariant, ListsAreInvariant, WalletsAreInvariant, PTL DEF DefaultIsSound

-----------------------------------------------------------------------------
\* Everything stays what it is declared to be: the files and their descriptors, the wallets and
\* the configuration, the instances, the fees and the attempts, and the device.
THEOREM TypesAreRight == Spec => []TypeOK
<1>1. FilesInv => FilesTypeOK(Steps, Elements)
  <2> SUFFICES ASSUME FilesInv PROVE FilesTypeOK(Steps, Elements) OBVIOUS
  <2>1. FilesTyped BY DEF FilesInv
  <2>2. pc \in [Requests -> Steps \cup {"start", "open", "write", "rename", "done"}]
    <3>1. Steps \cup SavingSteps \cup {"start", "done"} = Steps \cup {"start", "open", "write", "rename", "done"}
      BY DEF SavingSteps
    <3> QED BY <2>1, <3>1 DEF FilesTyped
  <2>3. \A i \in Inodes : data[i].state \in {"whole", "empty", "part"} /\ data[i].list \in SUBSET Elements
    BY <2>1 DEF FilesTyped
  <2>4. up \in BOOLEAN /\ faults + crashes \in 0..MaxFaults
    <3>1. up \in BOOLEAN /\ faults \in Nat /\ crashes \in Nat /\ faults + crashes <= MaxFaults BY <2>1 DEF FilesTyped
    <3>2. MaxFaults \in Nat BY FilesAssumption
    <3> QED BY <3>1, <3>2
  <2> QED BY <2>1, <2>2, <2>3, <2>4 DEF FilesTyped, FilesTypeOK
<1>2. FeesInv => FeesTypeOK
  <2> SUFFICES ASSUME FeesInv, NEW r \in Requests PROVE executed[r] \in 0..(ReadRetries + 1) BY DEF FeesInv, FeesTypeOK
  <2>1. executed[r] \in Nat BY DEF FeesInv
  <2>2. executed[r] <= MaxAttempts(op[r]) \/ executed[r] = 0 BY DEF FeesInv
  <2>3. /\ MaxAttempts(op[r]) \in Nat /\ MaxAttempts(op[r]) <= ReadRetries + 1 /\ ReadRetries \in Nat
    BY AttemptsAreFew, FeesAssumption
  <2> QED BY <2>1, <2>2, <2>3
<1> QED BY <1>1, <1>2, FilesAreInvariant, WalletsAreInvariant, InstancesAreInvariant, FeesAreInvariant,
           LedgerIsInvariant, PTL DEF TypeOK, WalletsInv, InstancesInv, LedgerInv
=============================================================================
