----------------------------- MODULE GatewayState -----------------------------
(***************************************************************************)
(* What Gateway keeps for itself: the lists and key files under conf/, its *)
(* configuration, the trades that are dispatched by them, its singletons,  *)
(* the fees it caches and the hardware device, for requests that overlap,  *)
(* a disk that fails and a process that dies.                              *)
(***************************************************************************)
EXTENDS Trading, Instances, Fees, Ledger

vars == <<requestVars, fileVars, faultVars, walletVars, tradeVars, instanceVars, feeVars, ledgerVars>>

Steps == TokenSteps \cup PoolSteps \cup WalletSteps \cup InstanceSteps \cup FeeSteps \cup LedgerSteps
Elements == Tokens \cup Pools \cup {HardwareEntry(a) : a \in KeyFiles} \cup Ciphers

Ops == TokenOps \cup PoolOps \cup WalletOps \cup TradeOps \cup InstanceOps \cup FeeOps \cup RpcOps \cup LedgerOps
ArgsOf(o) ==
  CASE o \in TokenOps  -> Tokens
    [] o \in PoolOps   -> Pools
    [] o \in WalletOps -> WalletArgs
    [] o \in TradeOps  -> TradeArgs
    [] o \in LedgerOps -> LedgerArgs
    [] OTHER           -> FeeArgs

RequestsInit ==
  /\ op \in [Requests -> Ops]
  /\ arg \in [Requests -> UNION {ArgsOf(op[r]) : r \in Requests}]
  /\ \A r \in Requests : arg[r] \in ArgsOf(op[r])

\* A wallet without a key file has the empty list here.
ConfInit(tokens, pools, hardware, keys, present) ==
  FilesInit([d \in Lists |-> CASE d = "tokens" -> tokens [] d = "pools" -> pools
                                [] d = "hardware" -> hardware [] OTHER -> keys[d]],
            present \cup {a \in KeyFiles : keys[a] # {}})

\* Before anything was done: what is kept in memory is not there yet.
MemoryInit ==
  /\ WalletsInit
  /\ sent = [r \in Requests |-> NotSent] /\ seen = [r \in Requests |-> {}]
  /\ InstancesInit
  /\ FeesInit
  /\ LedgerInit

Init ==
  /\ RequestsInit
  /\ \E tokens \in TokenLists, pools \in PoolLists, hardware \in SUBSET {HardwareEntry(a) : a \in KeyFiles},
        keys \in [KeyFiles -> {{}} \cup {{c} : c \in Ciphers}], missing \in SUBSET {"pools", "hardware"} :
       /\ "pools" \in missing => pools = {}
       /\ "hardware" \in missing => hardware = {}
       /\ ConfInit(tokens, pools, hardware, keys, {"tokens", "pools", "hardware"} \ missing)
  /\ MemoryInit

\* A request that saved the template goes on before anything else happens.
InTheMiddle(r) ==
  /\ op[r] \in PoolOps \cup SwapOps /\ held[r].flag
  /\ up /\ pc[r] # "done" /\ ~Saving(r, "pools")
Turn(r) == InTheMiddle(r) \/ \A q \in Requests : ~InTheMiddle(q)

\* The process dies; what it had in memory goes with it.
Crash ==
  /\ CrashFiles /\ CrashWallets /\ CrashInstances /\ CrashFees /\ CrashLedger
  /\ UNCHANGED sent /\ Watch

listsOnly == <<walletVars, sent, instanceVars, feeVars, ledgerVars>>

Next ==
  \/ \E r \in Requests :
       /\ Turn(r)
       /\ \/ op[r] \in TokenOps /\ TokenStep(r) /\ UNCHANGED listsOnly
          \/ op[r] \in PoolOps /\ PoolStep(r) /\ UNCHANGED listsOnly
          \/ op[r] \in WalletOps /\ WalletStep(r) /\ UNCHANGED <<sent, instanceVars, feeVars, ledgerVars>>
          \/ op[r] \in TradeOps /\ TradeStep(r) /\ UNCHANGED <<walletVars, instanceVars, feeVars, ledgerVars>>
          \/ op[r] \in InstanceOps /\ InstanceStep(r) /\ UNCHANGED <<walletVars, sent, feeVars, ledgerVars>>
          \/ op[r] \in FeeOps \cup RpcOps /\ FeeStep(r) /\ UNCHANGED <<walletVars, sent, instanceVars, ledgerVars>>
          \/ op[r] \in LedgerOps /\ LedgerStep(r) /\ UNCHANGED <<walletVars, sent, instanceVars, feeVars>>
       /\ Watch
  \/ (\E c \in Caches : Expire(c)) /\ UNCHANGED <<walletVars, tradeVars, instanceVars, ledgerVars>>
  \/ Crash
  \/ Restart /\ UNCHANGED <<tradeVars, instanceVars, feeVars, ledgerVars>>

Spec == Init /\ [][Next]_vars

TypeOK ==
  /\ FilesTypeOK(Steps, Elements)
  /\ WalletTypeOK
  /\ InstancesTypeOK
  /\ FeesTypeOK
  /\ LedgerTypeOK

-----------------------------------------------------------------------------
\* The lists of tokens and pools are at every moment what the last successful change
\* made them, through failing disks and crashes, unless two changes overlapped: they are
\* written aside and renamed (saveTokenList, savePoolList).  The hardware wallets and the
\* key files are written in place: they are so when nobody is writing them, unless a
\* write was cut short.
FilesAsSaved ==
  \A d \in Lists \ clash :
    \/ entry[d] = NoFile
    \/ IsWhole(d) /\ ReadOf(d) = expected[d]
    \/ d \notin DOMAIN Temp /\ (d \in torn \/ \E r \in Requests : Saving(r, d))

\* A change that was told to have been made is still there when another request changed
\* something else since, unless the two overlapped or one of them went on with a list that
\* the other had replaced meanwhile: every change starts from the file (addToken, removeToken,
\* addPool, updatePoolByAddress, removePool).  POST /pools may replace another pool than the
\* one it found.
Touches(q, r) ==
  IF op[r] \in TokenOps
  THEN \/ op[q] \in TokenOps /\ (arg[q].symbol = arg[r].symbol \/ arg[q].address = arg[r].address)
       \/ op[q] = "find and save pool"
  ELSE \/ op[q] = "add pool"
       \/ op[q] \in PoolOps /\ arg[q].address = arg[r].address
Others(r) == Requests \ {r}
Undisturbed(d) == clash \cap {d, StaleMark[d]} = {}
KeptChanges ==
  \A r \in Requests :
    op[r] \in TokenOps \cup PoolOps /\ answer[r] = "ok"
      /\ (\A q \in Others(r) : pc[q] = "start" \/ ~Touches(q, r)) =>
      /\ op[r] \in {"add token", "remove token"} /\ Undisturbed("tokens") => TokenEffect(r)
      /\ op[r] \in {"add pool", "remove pool", "find and save pool"} /\ Undisturbed("pools") => PoolEffect(r)

\* No list has two tokens of one symbol or address, or two pools of one address, however
\* the changes overlapped (TokenService.addToken, PoolService.addPool, updatePool).
UniqueEntries ==
  /\ IsWhole("tokens") => UniqueTokens(ReadOf("tokens"))
  /\ IsWhole("pools") => UniquePools(ReadOf("pools"))

\* So the lists keep what they were told, and keep it once.
ListsAreKept == KeptChanges /\ UniqueEntries

\* When nothing is under way, the default wallet is one that there is, or still the one that
\* Gateway was started with and which nobody removed (the placeholder of the templates,
\* say), unless POST /config/update set it, changes of the wallets overlapped or something
\* failed (removeWallet, setDefault).
Quiescent == up /\ \A r \in Requests : pc[r] \in {"start", "done"}
Configures(r) == op[r] = "update config" /\ pc[r] # "start"
DefaultIsKnown ==
  Quiescent /\ faults + crashes = 0 /\ clash = {} /\ (\A r \in Requests : ~Configures(r)) =>
    \/ config.wallet \in {NoWallet} \cup Hardware \cup {a \in KeyFiles : KeyExists(a)}
    \/ config.wallet = startDefault /\ config.wallet \notin removed

\* A default wallet that was told to be set is the default from then on, after a restart
\* too, unless another request sets one (updateDefaultWallet, ConfigManagerV2.set).
DefaultAsTold ==
  \A r \in Requests :
    op[r] = "set default" /\ answer[r] = "ok"
      /\ (\A q \in Others(r) : op[q] \in {"use wallet", "list wallets"} \/ (op[q] = "update config" /\ ~Configures(q))) =>
    config.wallet = arg[r].wallet

\* So no route of the wallets leaves a default that is gone, or another one than it told.
DefaultIsSound == DefaultIsKnown /\ DefaultAsTold

\* A swap goes to a pool that was on the list at some moment since the swap began, whatever
\* was done to the list meanwhile: one whose removal was told before is never traded on
\* again (getPool in trading/swap).  Unless changes of the list overlapped.
DispatchedAsAsked ==
  [][\A r \in Requests : sent'[r] # sent[r] /\ "pools" \notin clash => sent'[r].pools \subseteq seen[r]]_vars

\* Of the classes that register their instance before they initialise it there is only
\* one instance, whoever comes in between; of those that register it afterwards nobody
\* gets one that is not initialised (getInstance).
SingleInstance ==
  \A p, q \in Requests : \A x \in got[p], y \in got[q] : x.kind = y.kind /\ x.kind \in {"solana", "uniswap", "pancakeswap"} => x = y
ReadyInstance ==
  \A r \in Requests : \A x \in got[r] : x.kind \notin {"solana", "uniswap", "pancakeswap"} => x \in ready

\* The contracts of an EVM connector are on the node that its chain ends up with: the
\* chain is registered when Chainstack told its node (Ethereum.getInstance).  A connector
\* of Solana that is made meanwhile keeps the other one.
KeepsTheNode ==
  \A r \in Requests : op[r] \in {"uniswap", "pancakeswap"} /\ kept[r] # "none" =>
    \E x \in got[r] : x.kind = "ethereum" /\ kept[r] = node["ethereum"][x.by]

\* A pool of Meteora is loaded by one request at a time, and nobody waits for a load
\* that nobody makes (Meteora.getDlmmPool).
OneLoad ==
  LET loading == {r \in Requests : pc[r] = "loading"} IN
  /\ dlmm = "loading" <=> loading # {}
  /\ \A p, q \in loading : p = q
  /\ (\E r \in Requests : pc[r] = "awaiting") => loading # {}

\* Overlapping first requests do no harm.
InstancesAreSound == SingleInstance /\ ReadyInstance /\ KeepsTheNode /\ OneLoad

\* No estimate of more than ten seconds is used (estimateGasPrice, prepareGasOptions,
\* estimatePriorityFeeDetailed), and what Gateway estimates itself is accepted by the chain:
\* the fee covers the tip, and a priority fee is within its bounds.
Accepted(r, e) ==
  /\ e.kind = "eip1559" /\ arg[r].price = 0 => e.tip <= e.fee
  /\ e.kind = "priority" => e.fee \in MinFee..MaxFee
FeesAreSound ==
  [][\A r \in Requests : used'[r] # used[r] => used'[r].fresh /\ Accepted(r, used'[r])]_vars

\* A call that writes reaches the node at most once (isRetryableReadMethod).
WritesOnce == \A r \in Requests : op[r] = "rpc write" => executed[r] <= 1

\* When no request uses the device its lock is free, however the requests closed each
\* other's transports (createTransport, closeTransport).
LockIsFree == (\A r \in Requests : pc[r] \in {"start", "done"}) => ~manager.locked

\* An address that one of the tried paths has is found, and a signature is made, unless
\* the device fails or another request takes the transport (addHardwareWallet,
\* withTransport).
SearchIsComplete ==
  \A r \in Requests :
    op[r] \in LedgerOps /\ answer[r] \in {"refused", "error"} /\ ~session[r].disturbed
      /\ (\A q \in Others(r) : pc[q] = "start") =>
    op[r] = "ledger add" /\ arg[r].index > (IF arg[r].chain = "solana" THEN Accounts + 1 ELSE Accounts)

\* So requests that meet at the device leave it usable, and get what they came for.
DeviceServes == LockIsFree /\ SearchIsComplete
=============================================================================
