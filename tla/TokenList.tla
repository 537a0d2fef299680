------------------------------ MODULE TokenList -------------------------------
(***************************************************************************)
(* The token list of one network: TokenService and the routes under        *)
(* /tokens.  Every operation loads the list from its file, changes its     *)
(* copy and saves that.                                                    *)
(***************************************************************************)
EXTENDS Files

CONSTANTS
  Symbols,
  Addresses    \* of tokens, of pools and of wallets

Tokens == [symbol : Symbols, address : Addresses]

TokenOps == {"add token", "remove token", "get token", "list tokens", "find token", "find and save token"}
TokenSteps == {"add"}

\* Some token, and the list without or with it, the way addToken makes it: by
\* symbol, unless another token has its address.
SameSymbol(l, t) == {x \in l : x.symbol = t.symbol}
SameAddress(l, t) == {x \in l : x.address = t.address}

UniqueTokens(l) == \A x, y \in l : x.symbol = y.symbol \/ x.address = y.address => x = y
TokenLists == {l \in SUBSET Tokens : UniqueTokens(l)}

\* FAULT: the tokens of another symbol are dropped.
KeepsOnly(l, t) == SameSymbol(l, t) \cup {t}

Conflicts(l, t) == SameAddress(l, t) \ SameSymbol(l, t) # {}

WithToken(l, t) == (l \ SameSymbol(l, t)) \cup {t}

\* handleTokenError, by what the error is about.
TokenErrors == [missing |-> "not_found", chain |-> "refused", malformed |-> "refused", duplicate |-> "refused",
                json |-> "invalid", other |-> "error"]

\* A request that only looks at the list does so in the step that reads it.  A file that
\* is not JSON is a 400, except to the list of all tokens.
TokensBroken(r, status) == ~IsWhole("tokens") /\ Return(r, status)
TheTokens == ReadOf("tokens")

\* Load and change: readFile, and then, when others may have saved the list meanwhile,
\* everything up to the next await.
TokensRead(r) == held[r].read.list
LoadTokens(r, status) ==
  \/ Reads(r, "tokens")
  \/ HasRead(r) /\ ~HasWhole(r) /\ Return(r, status)

\* A token that lacks something, or whose address is none of the chain.
ValidateToken(r) == ~HasRead(r) /\ Return(r, TokenErrors.malformed)

LoadAndAdd(r) ==
  \/ ValidateToken(r)
  \/ LoadTokens(r, TokenErrors.json)
  \/ HasWhole(r) /\ Conflicts(TokensRead(r), arg[r]) /\ Return(r, TokenErrors.duplicate)
  \/ /\ HasWhole(r) /\ ~Conflicts(TokensRead(r), arg[r])
     /\ Save(r, "tokens", WithToken(TokensRead(r), arg[r]), "done", Nothing)

AddToken(r) ==
  /\ Starts(r, "add token") \/ (At(r, "add") /\ op[r] = "find and save token")
  /\ LoadAndAdd(r)

LoadAndRemove(r) ==
  \/ LoadTokens(r, TokenErrors.json)
  \/ HasWhole(r) /\ SameAddress(TokensRead(r), arg[r]) = {} /\ Return(r, TokenErrors.missing)
  \/ /\ HasWhole(r) /\ SameAddress(TokensRead(r), arg[r]) # {}
     /\ Save(r, "tokens", TokensRead(r) \ SameAddress(TokensRead(r), arg[r]), "done", Nothing)

RemoveToken(r) ==
  /\ Starts(r, "remove token")
  /\ (~HasRead(r) /\ Return(r, TokenErrors.chain)) \/ LoadAndRemove(r)

\* getToken
Matches(l, t) == SameSymbol(l, t) \cup SameAddress(l, t)

GetToken(r) ==
  /\ Starts(r, "get token")
  /\ \/ TokensBroken(r, TokenErrors.json)
     \/ IsWhole("tokens") /\ Return(r, IF Matches(TheTokens, arg[r]) = {} THEN "not_found" ELSE "ok")

ListTokens(r) ==
  /\ Starts(r, "list tokens")
  /\ TokensBroken(r, "error") \/ (IsWhole("tokens") /\ Return(r, "ok"))

\* GeckoTerminal does not tell the token: its address is malformed, it is not known, or the
\* service fails.
NoTokenInfo(r) == \E e \in {"malformed", "missing", "other"} : Return(r, TokenErrors[e])

FindToken(r) ==
  /\ Starts(r, "find token")
  /\ NoTokenInfo(r) \/ Return(r, "ok")

\* A token whose symbol is listed is not added.
FindAndSaveToken(r) ==
  /\ Starts(r, "find and save token")
  /\ \/ NoTokenInfo(r)
     \/ TokensBroken(r, TokenErrors.json)
     \/ IsWhole("tokens") /\ SameSymbol(TheTokens, arg[r]) # {} /\ Return(r, "ok")
     \/ IsWhole("tokens") /\ SameSymbol(TheTokens, arg[r]) = {} /\ GoTo(r, "add", Nothing)

SaveTokens(r) ==
  /\ op[r] \in TokenOps
  /\ Open(r) \/ Write(r) \/ Rename(r, FALSE, TokenErrors.other) \/ WriteFails(r, FALSE, TokenErrors.other)

TokenStep(r) ==
  \/ AddToken(r) \/ RemoveToken(r) \/ GetToken(r) \/ ListTokens(r) \/ FindToken(r) \/ FindAndSaveToken(r)
  \/ SaveTokens(r)

\* What a change that was told to have been made comes to.
TokenEffect(r) ==
  IF op[r] = "remove token" THEN SameAddress(expected["tokens"], arg[r]) = {} ELSE arg[r] \in expected["tokens"]
=============================================================================
