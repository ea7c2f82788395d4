------------------------------ MODULE ClearSign ------------------------------
(***************************************************************************)
(* clearSign: the semantic review of what a wallet is about to sign.  Its  *)
(* input s has                                                             *)
(*   calldata   form ("none", "hex", or "text" that is not hex), selector, *)
(*              params (the <<name, value>> pairs its words hold) and      *)
(*              nested (the known selectors that occur in its body)        *)
(*   typed      kind ("none" when there is no typed data), fields (its     *)
(*              <<path, value>> pairs) and contexts (the payment context   *)
(*              hashes that occur in its text)                             *)
(*   expected   merchant, amount, whole, context, selectors, spenders,     *)
(*              abis, paramsGiven, params, and message: given, required,   *)
(*              contains, context                                          *)
(* A selector is named by its function.  Addresses and names are compared  *)
(* without their case.                                                     *)
(***************************************************************************)
EXTENDS Integers, Sequences, FiniteSets

Unlimited == 9999  \* 2^256 - 1

ParamsOf ==
  [transfer |-> {"recipient", "amount"},
   approve |-> {"spender", "amount"},
   transferFrom |-> {"from", "recipient", "amount"},
   multicall |-> {},
   fund |-> {"context", "provider", "amount"},
   refund |-> {"context"},
   deliver |-> {"context"}]

FunctionSignatures == DOMAIN ParamsOf \cup {"mint", "withdraw"}

Names(pairs) == {p[1] : p \in pairs}

(***************************************************************************)
(* decodeKnownCalldata: readWord throws where a word is missing.           *)
(***************************************************************************)
Decodes(calldata) ==
  calldata.selector \in DOMAIN ParamsOf => ParamsOf[calldata.selector] \subseteq Names(calldata.params)

DecodedParams(calldata) ==
  {p \in calldata.params :
     calldata.selector \in DOMAIN ParamsOf /\ p[1] \in ParamsOf[calldata.selector]}

ThrowsClearSign(s) == s.calldata.form = "hex" /\ ~ Decodes(s.calldata)

(***************************************************************************)
(* The tags of typed data: it names the payment context, and it satisfies  *)
(* the message policy.                                                     *)
(***************************************************************************)
MessageMatches(typed, match) ==
  match.given =>
    /\ match.required \subseteq Names(typed.fields)
    /\ match.contains \subseteq typed.fields
    /\ match.context # "none" => match.context \in typed.contexts

TypedDataIsSafe(s) ==
  s.typed.kind # "none" =>
    /\ s.expected.context \in s.typed.contexts
    /\ MessageMatches(s.typed, s.expected.message)

(***************************************************************************)
(* The tags of calldata.                                                   *)
(***************************************************************************)
AbiMatches(s) ==
  s.expected.abis # {} =>
    \E abi \in s.expected.abis :
      /\ abi.selector = s.calldata.selector
      /\ abi.selector \in FunctionSignatures
      /\ abi.signature = abi.selector

ApprovesSafely(s) ==
  s.calldata.selector = "approve" =>
    /\ <<"amount", Unlimited>> \notin s.calldata.params
    /\ \E spender \in s.expected.spenders : <<"spender", spender>> \in s.calldata.params

TransfersToMerchant(s) ==  \* mutation: the amount is not compared
  s.calldata.selector \in {"transfer", "transferFrom"} =>
    <<"recipient", s.expected.merchant>> \in s.calldata.params

TransfersAsExpected(s) ==
  s.calldata.selector \in {"transfer", "transferFrom"} =>
    /\ <<"recipient", s.expected.merchant>> \in s.calldata.params
    /\ s.expected.whole
    /\ <<"amount", s.expected.amount>> \in s.calldata.params

NestsSomeAllowed(s) ==  \* mutation: one allowed selector among the nested ones is enough
  s.calldata.selector = "multicall" => s.calldata.nested \cap s.expected.selectors # {}

(***************************************************************************)
(* findNestedSelectors looks for the text of the selectors anywhere in the *)
(* body; what the nested calls do with whom is not decoded.                *)
(***************************************************************************)
NestsOnlyAllowed(s) ==
  s.calldata.selector = "multicall" => s.calldata.nested \subseteq s.expected.selectors

SettlesOwnContext(s) ==
  s.calldata.selector \in {"fund", "refund", "deliver"} =>
    <<"context", s.expected.context>> \in s.calldata.params

ParamsMatch(s) ==
  s.expected.paramsGiven =>
    /\ s.calldata.selector \in DOMAIN ParamsOf
    /\ s.expected.params \subseteq DecodedParams(s.calldata)

CalldataIsSafe(s) ==
  /\ s.calldata.form = "hex"
  /\ s.calldata.selector \in s.expected.selectors
  /\ AbiMatches(s)
  /\ ApprovesSafely(s)
  /\ TransfersAsExpected(s)
  /\ NestsOnlyAllowed(s)
  /\ SettlesOwnContext(s)
  /\ ParamsMatch(s)

(***************************************************************************)
(* clearSign.  Text that is not hex is refused whatever the typed data is; *)
(* with neither calldata nor typed data a person should approve.           *)
(***************************************************************************)
ClearSignResult(s) ==
  IF ~ TypedDataIsSafe(s) THEN "block"
  ELSE IF s.calldata.form # "none" /\ ~ CalldataIsSafe(s) THEN "block"
  ELSE IF s.calldata.form = "none" /\ s.typed.kind = "none" THEN "require_approval"
  ELSE "allow"
=============================================================================
