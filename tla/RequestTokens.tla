---------------------------- MODULE RequestTokens ----------------------------
(***************************************************************************)
(* Requests and the identity of their token prefixes.  A prefix hash of    *)
(* the code is a hash chain over the tokens, so two requests have the same *)
(* hash at a boundary exactly when they agree on all the tokens before it: *)
(* here, the first Shared[r] tokens of every request are those of a common *)
(* trunk and the rest are its own.                                         *)
(***************************************************************************)
EXTENDS Integers

CONSTANTS Req,      \* request ids
          Prompt,   \* Prompt[r]: num_prompt_tokens
          MaxOut,   \* MaxOut[r]: sampling_params.max_tokens
          Shared,   \* Shared[r] <= Prompt[r]: length of the trunk in r
          H,        \* block size of the Mamba group and of the prefix hashes
          A         \* block size of the full-attention group

ASSUME TokensAssumption ==
  /\ H \in Nat \ {0} /\ A \in Nat \ {0} /\ A > H /\ A % H = 0
  /\ Prompt \in [Req -> Nat \ {0}] /\ MaxOut \in [Req -> Nat \ {0}]
  /\ Shared \in [Req -> Nat] /\ \A r \in Req : Shared[r] <= Prompt[r]

Prefix(r, n) == IF n <= Shared[r] THEN <<"trunk", n>> ELSE <<r, n>>

\* The hash of the first n tokens with the id of the group that stores them:
\* the Mamba state after n tokens, or the KV block (full, or filled up to n).
MambaHash(r, n) == <<"mamba", Prefix(r, n)>>
AttnHash(r, n) == <<"attn", Prefix(r, n)>>

Hashes == UNION {UNION {{MambaHash(r, n), AttnHash(r, n)} : n \in 1 .. Prompt[r] + MaxOut[r]} :
                   r \in Req}

Min2(a, b) == IF a < b THEN a ELSE b
Max2(a, b) == IF a > b THEN a ELSE b

CeilDiv(a, b) == (a + b - 1) \div b
=============================================================================
