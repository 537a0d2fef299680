------------------------------- MODULE Wallets --------------------------------
(***************************************************************************)
(* The wallets of one chain and its configuration: a key file per wallet,  *)
(* the list of the hardware wallets, and the default wallet, which is a    *)
(* value of the configuration.  The configuration is in memory, and saved  *)
(* to its file whenever a value is set.                                    *)
(***************************************************************************)
EXTENDS Files

VARIABLES
  config,        \* the configuration in memory
  configFile,    \* what is in its file
  configWhole,   \* the file is the YAML of a valid configuration
  startDefault,  \* the default wallet when the schemas of the routes were made
  removed        \* the wallets that were removed, and not added again

walletVars == <<config, configFile, configWhole, startDefault, removed>>

\* The templates of the configuration ship a default wallet that is none.
NoWallet == ""
Placeholder == "placeholder"
Configured == KeyFiles \cup {NoWallet, Placeholder}
Configs == [wallet : Configured, option : BOOLEAN]

WalletChanges == {"add wallet", "add hardware", "remove wallet", "set default"}
WalletOps == WalletChanges \cup {"use wallet", "list wallets", "update config"}
WalletSteps == {"chmod", "hardware", "gone", "dir", "rest", "isHardware", "set"}
WalletArgs == [wallet : KeyFiles, default : BOOLEAN, value : {"true", "false", "other"}]

HardwareEntry(a) == [wallet |-> a]
Ciphers == {[cipher |-> "legacy"], [cipher |-> "hardened"]}
Legacy == {[cipher |-> "legacy"]}
Hardened == {[cipher |-> "hardened"]}

WalletTypeOK ==
  /\ config \in Configs /\ configFile \in Configs /\ configWhole \in BOOLEAN
  /\ startDefault \in Configured
  /\ removed \subseteq KeyFiles

\* getHardwareWallets: a file that is missing or cannot be read holds no wallet.
Hardware == IF IsWhole("hardware") THEN {h.wallet : h \in ReadOf("hardware")} ELSE {}
HardwareList == {HardwareEntry(a) : a \in Hardware}

KeyExists(a) == entry[a] # NoFile

WalletsInit ==
  /\ config \in Configs
  /\ configFile = config /\ configWhole = TRUE
  /\ startDefault = config.wallet
  /\ removed = {}

\* A change of the wallets begins while another one is under way.
Overlaps(r) == \E q \in Requests \ {r} : op[q] \in WalletChanges /\ pc[q] \notin {"start", "done"}

-----------------------------------------------------------------------------
\* saveConfig: the file is overwritten with the YAML of what is in memory.
Saved(c) == c

\* ConfigManagerV2.set: memory first, then the file, all in one go.  The file is not
\* written, or emptied and not written, when the disk is full.
SetConfig(r, c) ==
  /\ config' = c
  /\ \/ /\ configFile' = Saved(c) /\ configWhole' = TRUE
        /\ Answer(r, "ok")
        /\ UNCHANGED faults
     \/ /\ faults + crashes < MaxFaults /\ faults' = faults + 1
        /\ configWhole' \in {configWhole, FALSE}
        /\ Answer(r, "error")
        /\ UNCHANGED configFile
  /\ UNCHANGED <<op, arg, held, target, list, next, fd, fileVars, up, crashes, startDefault, removed>>

\* POST /config/update.  A string for a boolean option is "true" or counts as false; the
\* default wallet may be any string.
UpdateConfig(r) ==
  /\ Starts(r, "update config")
  /\ \/ (Return(r, "not_found") \/ Return(r, "refused")) /\ UNCHANGED walletVars
     \/ SetConfig(r, [config EXCEPT !.option = (arg[r].value = "true")])
     \/ \E w \in Configured : SetConfig(r, [config EXCEPT !.wallet = w])

\* updateDefaultWallet
SetDefault(r) ==
  /\ At(r, "set")
  /\ SetConfig(r, [config EXCEPT !.wallet = arg[r].wallet])

-----------------------------------------------------------------------------
Begins(r, o) == Starts(r, o) /\ UNCHANGED <<config, configFile, configWhole, startDefault>>
Goes(r, step) == At(r, step) /\ UNCHANGED walletVars

\* Refused for its chain, key, address or device before anything is changed.
Unacceptable(r) == Return(r, "refused") \/ Return(r, "error")

\* The marks of an overlap are made by the step that begins a change.
Marked(r) == clash \cup (IF Overlaps(r) THEN {"wallets"} ELSE {})
BeginSave(r, d, l, n) ==
  /\ pc' = [pc EXCEPT ![r] = "open"]
  /\ target' = [target EXCEPT ![r] = SavesTo(d)]
  /\ list' = [list EXCEPT ![r] = l]
  /\ next' = [next EXCEPT ![r] = n]
  /\ clash' = Marked(r) \cup Overlapping(r, d)
  /\ UNCHANGED <<op, arg, held, fd, answer, entry, data, expected, torn, faultVars>>
BeginStep(r, step, h) ==
  /\ pc' = [pc EXCEPT ![r] = step]
  /\ held' = [held EXCEPT ![r] = h]
  /\ clash' = Marked(r)
  /\ UNCHANGED <<op, arg, target, list, next, fd, answer, entry, data, expected, torn, faultVars>>

\* POST /wallet/add writes the key file, makes it readable to its owner only, ...
AddWallet(r) ==
  /\ Begins(r, "add wallet")
  /\ \/ Unacceptable(r) /\ UNCHANGED removed
     \/ BeginSave(r, arg[r].wallet, Hardened, "chmod") /\ removed' = removed \ {arg[r].wallet}

\* ... and makes it the default if that was asked for.  Unlocking goes on whether the
\* upgrade of the key file succeeded or not.
Chmod(r) ==
  /\ Goes(r, "chmod")
  /\ IF op[r] = "use wallet" THEN Return(r, "ok")
     ELSE IF ~KeyExists(arg[r].wallet) THEN Return(r, "error")
     ELSE IF arg[r].default THEN GoTo(r, "set", Nothing) ELSE Return(r, "ok")

\* POST /wallet/add-hardware, once the Ledger told the address.
AddHardware(r) ==
  /\ Begins(r, "add hardware")
  /\ \/ Unacceptable(r) /\ UNCHANGED removed
     \/ /\ BeginSave(r, "hardware", HardwareList \cup {HardwareEntry(arg[r].wallet)},
                     IF arg[r].default THEN "set" ELSE "done")
        /\ removed' = removed \ {arg[r].wallet}

\* POST /wallet/setDefault: for wallets that there are.
SetDefaultRoute(r) ==
  /\ Begins(r, "set default") /\ UNCHANGED removed
  /\ \/ Return(r, "refused")
     \/ BeginStep(r, IF KeyExists(arg[r].wallet) THEN "set" ELSE "isHardware", Nothing)

IsHardware(r) ==
  /\ Goes(r, "isHardware")
  /\ IF arg[r].wallet \in Hardware THEN GoTo(r, "set", Nothing) ELSE Return(r, "not_found")

\* FAULT: the default wallet is looked up after the removal of another one.
ForgetsDefault(r) == FALSE

IsDefault(r) == config.wallet = arg[r].wallet

\* DELETE /wallet/remove: a hardware wallet is taken off its list, of any other the
\* key file goes, if there is one.  Whether it is the default is read before.
RemoveWallet(r) ==
  LET h == [Nothing EXCEPT !.flag = IsDefault(r)] IN
  /\ Begins(r, "remove wallet") /\ UNCHANGED removed
  /\ \/ Return(r, "refused")
     \/ BeginStep(r, IF arg[r].wallet \in Hardware THEN "hardware" ELSE "gone", h)

Afterwards(r) == IF held[r].flag THEN "dir" ELSE "done"

RemoveHardware(r) ==
  /\ At(r, "hardware") /\ UNCHANGED <<config, configFile, configWhole, startDefault>>
  /\ IF arg[r].wallet \notin Hardware THEN Return(r, "not_found") /\ UNCHANGED removed
     ELSE /\ Save(r, "hardware", HardwareList \ {HardwareEntry(arg[r].wallet)}, Afterwards(r), held[r])
          /\ removed' = removed \cup {arg[r].wallet}

RemoveKey(r) ==
  /\ At(r, "gone") /\ UNCHANGED <<config, configFile, configWhole, startDefault>>
  /\ Unlink(r, arg[r].wallet, Afterwards(r), held[r])
  /\ removed' = removed \cup {arg[r].wallet}

\* The default becomes the first wallet that is left: readdir, the hardware wallets
\* after that, and then set.
RemainingKeys(r) ==
  /\ Goes(r, "dir")
  /\ GoTo(r, "rest", [held[r] EXCEPT !.old = {a \in KeyFiles : KeyExists(a)}])

Remaining(r) == IF held[r].old # {} THEN held[r].old ELSE IF Hardware # {} THEN Hardware ELSE {NoWallet}

NewDefault(r) ==
  /\ At(r, "rest")
  /\ \E a \in Remaining(r) : SetConfig(r, [config EXCEPT !.wallet = a])

\* getWallet, of every route that signs: a key file in the old format is written anew
\* in the hardened one, in place.
GetWallet(r) ==
  LET a == arg[r].wallet IN
  CASE ~KeyExists(a)               -> Return(r, "error")
    [] ~IsWhole(a) /\ KeyExists(a) -> Return(r, "error")
    [] IsWhole(a) /\ ReadOf(a) = Legacy -> Save(r, a, Hardened, "chmod", Nothing)
    [] OTHER                       -> Return(r, "ok")

\* POST /wallet/sign, for one of them.
SignMessage(r) ==
  /\ Begins(r, "use wallet") /\ UNCHANGED removed
  /\ Unacceptable(r) \/ GetWallet(r)

ListWallets(r) == Begins(r, "list wallets") /\ Return(r, "ok") /\ UNCHANGED removed

SaveWallets(r) ==
  LET swallows == op[r] = "use wallet" IN
  /\ op[r] \in WalletOps /\ UNCHANGED walletVars
  /\ Open(r) \/ Write(r) \/ WriteFails(r, swallows, "error")

WalletStep(r) ==
  \/ UpdateConfig(r) \/ SetDefault(r) \/ AddWallet(r) \/ Chmod(r) \/ AddHardware(r) \/ SetDefaultRoute(r)
  \/ IsHardware(r) \/ RemoveWallet(r) \/ RemoveHardware(r) \/ RemoveKey(r) \/ RemainingKeys(r) \/ NewDefault(r)
  \/ SignMessage(r) \/ ListWallets(r) \/ SaveWallets(r)

-----------------------------------------------------------------------------
\* The process dies, in the middle of writing the configuration perhaps.
CrashWallets ==
  /\ configWhole' \in IF \E r \in Requests : pc[r] \in {"set", "rest"} THEN {configWhole, FALSE} ELSE {configWhole}
  /\ UNCHANGED <<config, configFile, startDefault, removed>>

\* It only starts with a configuration that can be read, and makes the schemas of
\* its routes from it.
Restart ==
  /\ ~up /\ configWhole
  /\ up' = TRUE
  /\ config' = configFile
  /\ startDefault' = configFile.wallet
  /\ UNCHANGED <<requestVars, fileVars, faults, crashes, configFile, configWhole, removed>>
=============================================================================
