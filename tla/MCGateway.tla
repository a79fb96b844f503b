----------------------------- MODULE MCGateway -----------------------------
(***************************************************************************)
(* Instances of module Gateway for TLC.                                    *)
(***************************************************************************)
EXTENDS Gateway, TLC

CONSTANTS blue, p, q, name, secret, c1, c2

\* Two keys of one team.
TwoKeys == p :> blue @@ q :> blue
Budgets == p :> 1 @@ q :> 2
Rates == p :> 1 @@ q :> 3

OneKey == p :> blue
OneBudget == p :> 1
OneRate == p :> 3

\* The second version blocks what the first masks, and masks what it allows.
TwoPolicies ==
    <<1, name>> :> "allowed" @@ <<1, secret>> :> "masked" @@
    <<2, name>> :> "masked" @@ <<2, secret>> :> "blocked"

\* One version that masks the one and allows the other.
OnePolicy == <<1, name>> :> "allowed" @@ <<1, secret>> :> "masked"

Request(prompt, model, stream) ==
    [prompt |-> prompt, model |-> model, stream |-> stream]

\* A plain answer from the shorter chain and a stream that can fall back.
TwoRequests ==
    {Request(name, "any", FALSE), Request(secret, "fallback/any", TRUE)}

\* Any provider.
AnyOutcomes == [n \in Providers |-> {"ok", "timeout", "error"}]

Symmetry == Permutations({c1, c2})
=============================================================================
