-------------------------------- MODULE Files ---------------------------------
(***************************************************************************)
(* The files under conf/ that requests change while Gateway runs: how a    *)
(* list is written, to a temporary file that is then renamed or in place,  *)
(* with the other requests' steps, a failing disk and a crash in between.  *)
(*                                                                         *)
(* A name refers to an inode; a request that opened a file keeps its inode *)
(* whatever happens to the name.  Node runs the callbacks one at a time,   *)
(* so a step here is what happens from one await to the next, or one       *)
(* operation of the thread pool.  A readFile is one such operation: what   *)
(* goes on with its content is another step.                               *)
(***************************************************************************)
EXTENDS Integers, Sequences, FiniteSets

CONSTANTS
  Requests,
  KeyFiles,     \* the key files of the wallets
  MaxFaults     \* bound on the writes that fail and the crashes, together

\* No wallet has an address that is the name of a list.
ASSUME FilesAssumption ==
  /\ IsFiniteSet(Requests) /\ IsFiniteSet(KeyFiles)
  /\ KeyFiles \cap {"tokens", "pools", "hardware", "tokens.tmp", "pools.tmp"} = {}
  /\ KeyFiles \cap {"wallets", "stale tokens", "stale pools"} = {}
  /\ MaxFaults \in Nat

VARIABLES
  op, arg,       \* what each request asks for
  pc,            \* where each request is
  held,          \* what it remembers of what it read
  target, list,  \* the file it is writing, and the list
  next,          \* where it goes on after that
  fd,            \* the inode it writes to
  entry,         \* the inode of each name, NoFile when there is none
  data,          \* the content of each inode
  answer,        \* its HTTP answer
  expected,      \* the list that the successful changes add up to
  clash,         \* the lists of which two changes overlapped, and other marks of that
  torn,          \* the files that a crash or a failed write left half written
  up, faults, crashes

requestVars == <<op, arg, pc, held, target, list, next, fd, answer>>
fileVars == <<entry, data, expected, clash, torn>>
faultVars == <<up, faults, crashes>>

\* A key file is a list of one element, its cipher.
Lists == {"tokens", "pools", "hardware"} \cup KeyFiles
Temp == [d \in {"tokens", "pools"} |-> IF d = "tokens" THEN "tokens.tmp" ELSE "pools.tmp"]
Names == Lists \cup {Temp[d] : d \in DOMAIN Temp}
ListOf(name) == CASE name = "tokens.tmp" -> "tokens" [] name = "pools.tmp" -> "pools" [] OTHER -> name

\* A name or a descriptor refers to an inode, so there are no more in use than that.
NoFile == 0
Inodes == 1..(Cardinality(Names) + Cardinality(Requests))

\* "part" is what JSON.parse refuses: an empty file, or a list with the end of a
\* longer one behind it.
Whole(l) == [state |-> "whole", list |-> l]
Empty == [state |-> "empty", list |-> {}]
Part == [state |-> "part", list |-> {}]

IsWhole(name) == entry[name] # NoFile /\ data[entry[name]].state = "whole"
ReadOf(name) == data[entry[name]].list

\* What readFile told a request, or that there is no file.
NotRead == [state |-> "not read", list |-> {}]
Absent == [state |-> "absent", list |-> {}]
ContentOf(name) == IF entry[name] = NoFile THEN Absent ELSE data[entry[name]]

\* What a request may remember: a yes or no, some elements, tokens still to do, and what
\* it read and goes on with.
Nothing == [flag |-> FALSE, old |-> {}, rest |-> <<>>, read |-> NotRead]
HasRead(r) == held[r].read # NotRead
HasWhole(r) == held[r].read.state = "whole"

\* The changes that overlapped are marked by their list; those that read a list, and save
\* it when it is another one, by a mark of their own; those of the wallets by a third.
StaleMark == [d \in DOMAIN Temp |-> IF d = "tokens" THEN "stale tokens" ELSE "stale pools"]
Marks == {"wallets"} \cup {StaleMark[d] : d \in DOMAIN Temp}

\* "refused" is a 400 or a 409, "invalid" what a route makes of a file that is not
\* JSON, "lost" a connection that the crash closed.
Answers == {"none", "ok", "not_found", "refused", "invalid", "error", "lost"}

FilesTypeOK(Steps, Elements) ==
  /\ pc \in [Requests -> Steps \cup {"start", "open", "write", "rename", "done"}]
  /\ target \in [Requests -> Names]
  /\ \A r \in Requests : list[r] \in SUBSET Elements
  /\ next \in [Requests -> Steps \cup {"start", "done"}]
  /\ fd \in [Requests -> Inodes \cup {NoFile}]
  /\ entry \in [Names -> Inodes \cup {NoFile}]
  /\ \A i \in Inodes : data[i].state \in {"whole", "empty", "part"} /\ data[i].list \in SUBSET Elements
  /\ answer \in [Requests -> Answers]
  /\ \A d \in Lists : expected[d] \in SUBSET Elements
  /\ clash \subseteq Lists \cup Marks
  /\ torn \subseteq Lists
  /\ up \in BOOLEAN /\ faults + crashes \in 0..MaxFaults

\* `initial' are the lists, `present' those that have a file.
FirstInode == CHOOSE f \in [Lists -> 1..Cardinality(Lists)] : \A c, d \in Lists : f[c] = f[d] => c = d

FilesInit(initial, present) ==
  /\ pc = [r \in Requests |-> "start"]
  /\ held = [r \in Requests |-> Nothing]
  /\ target = [r \in Requests |-> "tokens"]
  /\ list = [r \in Requests |-> {}]
  /\ next = [r \in Requests |-> "done"]
  /\ fd = [r \in Requests |-> NoFile]
  /\ entry = [n \in Names |-> IF n \in present THEN FirstInode[n] ELSE NoFile]
  /\ data = [i \in Inodes |-> IF \E d \in present : FirstInode[d] = i
                              THEN Whole(initial[CHOOSE d \in present : FirstInode[d] = i]) ELSE Empty]
  /\ answer = [r \in Requests |-> "none"]
  /\ expected = initial
  /\ clash = {}
  /\ torn = {}
  /\ up = TRUE /\ faults = 0 /\ crashes = 0

-----------------------------------------------------------------------------
Starts(r, o) == up /\ pc[r] = "start" /\ op[r] = o
At(r, step) == up /\ pc[r] = step

Answer(r, a) ==
  /\ pc' = [pc EXCEPT ![r] = "done"]
  /\ answer' = [answer EXCEPT ![r] = a]

Return(r, a) == Answer(r, a) /\ UNCHANGED <<op, arg, held, target, list, next, fd, fileVars, faultVars>>

\* On to another step of the same request.
GoTo(r, step, h) ==
  /\ pc' = [pc EXCEPT ![r] = step]
  /\ held' = [held EXCEPT ![r] = h]
  /\ UNCHANGED <<op, arg, target, list, next, fd, answer, fileVars, faultVars>>

\* readFile.  What the request does with the content comes later.
Reads(r, d) == ~HasRead(r) /\ GoTo(r, pc[r], [held[r] EXCEPT !.read = ContentOf(d)])

Saving(r, d) == pc[r] \in {"open", "write", "rename"} /\ ListOf(target[r]) = d

\* FAULT: the list is written to the file itself.
InPlace(d) == d

\* Lists of tokens and pools go to a temporary file next to the list, the list of
\* hardware wallets does not.
SavesTo(d) == IF d \in DOMAIN Temp THEN Temp[d] ELSE d

\* A change, computed from what was read, is about to be saved; n is where the request
\* goes on after that.  What was read may be stale by then, or about to be replaced by
\* somebody who is saving.
Overlapping(r, d) == {c \in {d} : \E q \in Requests \ {r} : Saving(q, d)}
Stale(r, d) == {StaleMark[c] : c \in {c \in DOMAIN Temp : c = d /\ held[r].read # ContentOf(c)}}

Save(r, d, l, n, h) ==
  /\ pc' = [pc EXCEPT ![r] = "open"]
  /\ target' = [target EXCEPT ![r] = SavesTo(d)]
  /\ list' = [list EXCEPT ![r] = l]
  /\ next' = [next EXCEPT ![r] = n]
  /\ held' = [held EXCEPT ![r] = h]
  /\ clash' = clash \cup Overlapping(r, d) \cup Stale(r, d)
  /\ UNCHANGED <<op, arg, fd, answer, entry, data, expected, torn, faultVars>>

-----------------------------------------------------------------------------
Unused == {i \in Inodes : (\A n \in Names : entry[n] # i) /\ (\A q \in Requests : fd[q] # i)}
Fresh == CHOOSE i \in Unused : TRUE

\* writeFile creates the file or truncates the one that is there, ...
Open(r) ==
  LET inode == IF entry[target[r]] = NoFile THEN Fresh ELSE entry[target[r]] IN
  /\ At(r, "open")
  /\ entry' = [entry EXCEPT ![target[r]] = inode]
  /\ data' = [data EXCEPT ![inode] = Empty]
  /\ fd' = [fd EXCEPT ![r] = inode]
  /\ pc' = [pc EXCEPT ![r] = "write"]
  /\ UNCHANGED <<op, arg, held, target, list, next, answer, expected, clash, torn, faultVars>>

\* What a write from the beginning of the file makes of it: somebody else's list may
\* be longer, and then its end stays behind.
Overwritten(old, l) == IF old.state = "empty" \/ old.list = l THEN {Whole(l)} ELSE {Whole(l), Part}

Changed(r, d) == expected' = [expected EXCEPT ![d] = list[r]]

\* ... and writes it in one go.
Write(r) ==
  /\ At(r, "write")
  /\ \E c \in Overwritten(data[fd[r]], list[r]) : data' = [data EXCEPT ![fd[r]] = c]
  /\ fd' = [fd EXCEPT ![r] = NoFile]
  /\ pc' = [pc EXCEPT ![r] = IF target[r] \in Lists THEN next[r] ELSE "rename"]
  /\ IF target[r] \in Lists /\ entry[target[r]] = fd[r] THEN Changed(r, target[r])
     ELSE UNCHANGED expected
  /\ answer' = IF pc'[r] = "done" THEN [answer EXCEPT ![r] = "ok"] ELSE answer
  /\ UNCHANGED <<op, arg, held, target, list, next, entry, clash, torn, faultVars>>

\* A save that fails removes the temporary file, and throws: to a request that goes
\* on all the same, or to one that answers `status'.
Throws(r, swallows, status) ==
  IF swallows THEN pc' = [pc EXCEPT ![r] = next[r]] /\ UNCHANGED answer ELSE Answer(r, status)

Rename(r, swallows, status) ==
  LET d == ListOf(target[r]) IN
  /\ At(r, "rename")
  /\ IF entry[target[r]] # NoFile
     THEN /\ entry' = [entry EXCEPT ![d] = entry[target[r]], ![target[r]] = NoFile]
          /\ Changed(r, d)
          /\ pc' = [pc EXCEPT ![r] = next[r]]
          /\ answer' = IF next[r] = "done" THEN [answer EXCEPT ![r] = "ok"] ELSE answer
     ELSE Throws(r, swallows, status) /\ UNCHANGED <<entry, expected>>
  /\ UNCHANGED <<op, arg, held, target, list, next, fd, data, clash, torn, faultVars>>

\* The disk is full, or not writable.
WriteFails(r, swallows, status) ==
  /\ At(r, "write") /\ faults + crashes < MaxFaults
  /\ faults' = faults + 1
  /\ fd' = [fd EXCEPT ![r] = NoFile]
  /\ IF target[r] \in Lists
     THEN torn' = torn \cup {target[r]} /\ UNCHANGED entry
     ELSE entry' = [entry EXCEPT ![target[r]] = NoFile] /\ UNCHANGED torn
  /\ Throws(r, swallows, status)
  /\ UNCHANGED <<op, arg, held, target, list, next, data, expected, clash, up, crashes>>

-----------------------------------------------------------------------------
\* Not sent yet.
Waits(r) == pc[r] = "start" /\ held[r] = Nothing

\* The file goes; who has it open keeps writing to nowhere.
Unlink(r, d, step, h) ==
  /\ entry' = [entry EXCEPT ![d] = NoFile]
  /\ clash' = clash \cup Overlapping(r, d)
  /\ pc' = [pc EXCEPT ![r] = step]
  /\ held' = [held EXCEPT ![r] = h]
  /\ answer' = IF step = "done" THEN [answer EXCEPT ![r] = "ok"] ELSE answer
  /\ UNCHANGED <<op, arg, target, list, next, fd, data, expected, torn, faultVars>>

\* What a crash does to the requests and to the files they are in the middle of.
CrashFiles ==
  /\ up /\ faults + crashes < MaxFaults
  /\ up' = FALSE /\ crashes' = crashes + 1
  /\ pc' = [r \in Requests |-> IF Waits(r) THEN "start" ELSE "done"]
  /\ answer' = [r \in Requests |-> IF Waits(r) \/ pc[r] = "done" THEN answer[r] ELSE "lost"]
  /\ fd' = [r \in Requests |-> NoFile]
  /\ torn' = torn \cup {d \in Lists : \E r \in Requests : pc[r] = "write" /\ target[r] = d}
  /\ UNCHANGED <<op, arg, held, target, list, next, entry, data, expected, clash, faults>>
=============================================================================
