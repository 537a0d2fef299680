-------------------------------- MODULE Ledger --------------------------------
(***************************************************************************)
(* The hardware device, which all requests share through one transport:    *)
(* LedgerTransportManager, the searches and signatures made with it, and   *)
(* what happens when they overlap.  The device and its driver are external.*)
(*                                                                         *)
(* What follows an await without another one belongs to the same step: a   *)
(* request that is done with the transport asks for it again at once.      *)
(***************************************************************************)
EXTENDS Files

CONSTANT Accounts    \* MAX_ACCOUNTS_TO_CHECK

ASSUME LedgerAssumption == Accounts \in Nat \ {0}

VARIABLES
  manager,    \* the state of LedgerTransportManager, and the transports that are open
  session     \* what each request does with it

ledgerVars == <<manager, session>>

LedgerOps == {"ledger add", "ledger sign"}
LedgerSteps == {"opening", "exchange", "close", "replace"}

\* `index' is where the address is on the device, the last one nowhere.
LedgerArgs == [chain : {"solana", "ethereum"}, index : 1..(Accounts + 2)]

\* A transport that nobody refers to is as good as closed.
NoTransport == 0
Transports == 1..(Cardinality(Requests) + 2)
Session == [using : Transports \cup {NoTransport}, index : 1..(Accounts + 2),
            found : BOOLEAN, stopped : BOOLEAN, disturbed : BOOLEAN]

LedgerTypeOK ==
  /\ manager \in [locked : BOOLEAN, transport : Transports \cup {NoTransport}, open : SUBSET Transports]
  /\ session \in [Requests -> Session]

Unconnected == [locked |-> FALSE, transport |-> NoTransport, open |-> {}]

LedgerInit ==
  /\ manager = Unconnected
  /\ session = [r \in Requests |-> [using |-> NoTransport, index |-> 1, found |-> FALSE,
                                    stopped |-> FALSE, disturbed |-> FALSE]]

\* The paths that are tried: for Solana one more at the end; a signature has one.
LastPath(r) == IF arg[r].chain = "solana" THEN Accounts + 1 ELSE Accounts
Attempts(r) == IF op[r] = "ledger sign" THEN 1 ELSE LastPath(r)

-----------------------------------------------------------------------------
Does(r, m, s, step) ==
  /\ manager' = m /\ session' = [session EXCEPT ![r] = s]
  /\ GoTo(r, step, Nothing)
Tells(r, m, s, status) ==
  /\ manager' = m /\ session' = [session EXCEPT ![r] = s]
  /\ Return(r, status)

NoAddress(r) == IF op[r] = "ledger sign" THEN "error" ELSE "refused"

\* createTransport: whom the lock refuses closes the transport all the same, the one of the
\* request that has the lock, and tries the next path; while that one is opening there
\* is nothing to close, and all paths are refused at once.
Create(r, m, s) ==
  IF s.index > Attempts(r) THEN Tells(r, m, s, NoAddress(r))
  ELSE IF m.locked /\ m.transport = NoTransport THEN Tells(r, m, [s EXCEPT !.disturbed = TRUE], NoAddress(r))
  ELSE IF m.locked THEN Does(r, m, [s EXCEPT !.using = m.transport, !.disturbed = TRUE], "close")
  ELSE IF m.transport # NoTransport
       THEN Does(r, [m EXCEPT !.locked = TRUE], [s EXCEPT !.using = m.transport], "replace")
  ELSE Does(r, [m EXCEPT !.locked = TRUE], s, "opening")

\* After an operation, whatever came of it.
Ended(r, m, s) ==
  IF s.found THEN Tells(r, m, s, "ok")
  ELSE IF s.stopped THEN Tells(r, m, s, "refused")
  ELSE Create(r, m, [s EXCEPT !.index = @ + 1])

\* The finally of withTransport: closeTransport, if there is one by now.
Finally(r, m, s) ==
  IF m.transport = NoTransport THEN Ended(r, m, s)
  ELSE Does(r, m, [s EXCEPT !.using = m.transport], "close")

\* closeTransport forgets the transport that is there when the close ends, ...
Released(m, t) == [locked |-> FALSE, transport |-> NoTransport, open |-> m.open \ {t}]

CloseTransport(r) ==
  LET m == Released(manager, session[r].using) IN
  \/ At(r, "close") /\ Ended(r, m, session[r])
  \/ At(r, "replace") /\ Does(r, m, session[r], "opening")

\* FAULT: the lock is kept when the device cannot be opened.
StaysLocked(m) == m

\* ... and one that cannot be opened gives back the lock.
Unopened(m) == [m EXCEPT !.locked = FALSE]

InUse == {manager.transport} \cup {session[q].using : q \in Requests}
Another == CHOOSE t \in Transports \ InUse : TRUE

OpenTransport(r) ==
  /\ At(r, "opening")
  /\ \/ Does(r, [manager EXCEPT !.transport = Another, !.open = @ \cup {Another}],
             [session[r] EXCEPT !.using = Another], "exchange")
     \/ Finally(r, Unopened(manager), [session[r] EXCEPT !.disturbed = TRUE])

-----------------------------------------------------------------------------
\* The device answers, or it fails: locked, the wrong app, rejected by its user, and then
\* no other path is tried; or otherwise.  It does not answer on a closed transport.
NoReply(s) == {[s EXCEPT !.disturbed = TRUE]} \cup
            (IF s.using \in manager.open THEN {[s EXCEPT !.disturbed = TRUE, !.stopped = TRUE]} ELSE {})
Replies(s, found) == NoReply(s) \cup (IF s.using \in manager.open THEN {[s EXCEPT !.found = found]} ELSE {})

\* getSolanaAddress and getEthereumAddress
GetAddress(r) ==
  /\ At(r, "exchange") /\ op[r] = "ledger add"
  /\ \E s \in Replies(session[r], session[r].index = arg[r].index) : Finally(r, manager, s)

\* signSolanaTransaction and signEthereumTransaction
SignTransaction(r) ==
  /\ At(r, "exchange") /\ op[r] = "ledger sign"
  /\ \E s \in Replies(session[r], TRUE) : Finally(r, manager, s)

Disturbed(r) == [session[r] EXCEPT !.disturbed = TRUE]

\* POST /wallet/add-hardware, up to where the device told the path of the address:
\* AddHardware of Wallets goes on from there.
AddFromLedger(r) ==
  /\ Starts(r, "ledger add")
  /\ \/ Tells(r, manager, Disturbed(r), "refused")
     \/ Create(r, manager, session[r])

\* A signature with the wallet's path, if it is listed: SolanaLedger and EthereumLedger.
Sign(r) == Tells(r, manager, Disturbed(r), "error") \/ Create(r, manager, session[r])
SignForSolana(r) == Starts(r, "ledger sign") /\ arg[r].chain = "solana" /\ Sign(r)
SignForEthereum(r) == Starts(r, "ledger sign") /\ arg[r].chain = "ethereum" /\ Sign(r)

CrashLedger == manager' = Unconnected /\ UNCHANGED session

LedgerStep(r) ==
  \/ AddFromLedger(r) \/ SignForSolana(r) \/ SignForEthereum(r)
  \/ OpenTransport(r) \/ GetAddress(r) \/ SignTransaction(r) \/ CloseTransport(r)
=============================================================================
