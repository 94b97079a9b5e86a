-------------------------------- MODULE LLM ---------------------------------
(***************************************************************************)
(* What the LLM client (backend/services/llm_service.go) computes before   *)
(* it sends anything: the endpoints it tries, in their order, and the      *)
(* messages of a prompt.  A base URL is the sequence of its path segments, *)
(* an endpoint the base with the segments of the operation appended.       *)
(***************************************************************************)
EXTENDS Lists, SequencesExt

CONSTANTS
  CtxSize,      \* LLM_CTX_SIZE, in tokens; 0 is no limit.
  Reserve,      \* The tokens kept for the answer (512 in the code).
  SystemChars   \* Length of the system prompt (74 in the code).

ASSUME ContextAssumption == CtxSize \in Nat /\ Reserve \in Nat /\ SystemChars \in Nat

EndsWith(base, suffix) == IsSuffix(suffix, base)
Without(base, suffix) == SubSeq(base, 1, Len(base) - Len(suffix))

(* The bases tried, the configured one first, and none of them twice.      *)
Unique(s) ==
  FoldLeft(LAMBDA seen, x : IF Contains(seen, x) THEN seen ELSE Append(seen, x), <<>>, s)

APIBaseCandidates(base) ==
  LET llama == <<"llama.cpp">>
      engines == <<"engines">>
      root == Without(base, <<"engines", "v1">>)
  IN  Unique(<<base>> \o
        (IF EndsWith(base, <<"engines", "v1">>)
         THEN <<root \o engines, root \o engines \o llama, root, root \o engines \o llama>>
         ELSE IF EndsWith(base, engines) THEN <<Without(base, engines), base \o llama>>
         ELSE IF EndsWith(base, <<"v1">>) THEN <<Without(base, <<"v1">>)>>
         ELSE <<base \o engines, base \o engines \o llama>>))

EndpointCandidates(base, suffix) ==
  IF EndsWith(base, <<"v1">>) THEN <<base \o suffix>>
                              ELSE <<base \o <<"v1">> \o suffix, base \o suffix>>

(* All endpoints below the bases.  One may be there twice, below two.      *)
Endpoints(base, suffix) ==
  FoldLeft(LAMBDA found, b : found \o EndpointCandidates(b, suffix), <<>>,
           APIBaseCandidates(base))

ChatEndpoints(base) == Endpoints(base, <<"chat", "completions">>)

(* Of the fallback, which has two names, base by base.                     *)
CompletionEndpoints(base) ==
  FoldLeft(LAMBDA found, b : found \o EndpointCandidates(b, <<"completions">>)
                                  \o EndpointCandidates(b, <<"completion">>),
           <<>>, APIBaseCandidates(base))
-----------------------------------------------------------------------------
(* Tokens a text of n characters is counted as, with those of its role.    *)
Tokens(n) == (IF n = 0 THEN 0 ELSE n \div 4 + 1) + 8

InputBudget(ctx) == IF ctx < 2 * Reserve THEN ctx ELSE ctx - Reserve

(* From the newest of messages to the oldest, what still fits is counted:  *)
(* the tokens that the system prompt and messages i .. Len(cost) use.      *)
(* cost[i] is the cost of message i; the system prompt comes before 1.     *)
UsedFrom(base, cost, budget) ==
  LET n == Len(cost)
      used[i \in 1 .. n + 1] ==
        IF i = n + 1 THEN base
        ELSE used[i + 1] + (IF used[i + 1] + cost[i] > budget THEN 0 ELSE cost[i])
  IN  used

Fitting(base, cost, budget) ==
  {i \in 1 .. Len(cost) : UsedFrom(base, cost, budget)[i + 1] + cost[i] <= budget}

(* A change could forget to count the system prompt.                       *)
KeptWithoutSystem(cost, ctx) ==
  Fitting(0, cost, InputBudget(ctx)) \cup {Len(cost)}

(* The newest is kept although it may not fit; it is not counted then.     *)
Kept(cost, ctx) ==
  IF ctx = 0 THEN 1 .. Len(cost)
  ELSE Fitting(Tokens(SystemChars), cost, InputBudget(ctx)) \cup {Len(cost)}
=============================================================================
