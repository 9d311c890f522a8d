----------------------------- MODULE MCRelayer -----------------------------
(* Small instances of Relayer for TLC. *)
EXTENDS Relayer, TLC

CONSTANTS L1, L2, t1, t2

BothChains == {L1, L2}

(* One native token, on the first chain; or one on each chain. *)
OneToken == {t1}
HomeOfOne == t1 :> L1
TwoTokens == {t1, t2}
HomeOfTwo == (t1 :> L1) @@ (t2 :> L2)

(* A user owns two units of ether and of each native token, address(0)      *)
(* nothing; the bridge of L1 owns a token itself, that of L2 some ether.    *)
UserFunds ==
    [c \in Chains |-> [x \in Assets |-> [u \in Users |->
        IF u # Zero /\ (x = Eth \/ Home[x] = c) THEN 2 ELSE 0]]]
BridgeReserve ==
    [c \in Chains |-> [x \in Assets |->
        IF <<x, c>> \in {<<t1, L1>>, <<Eth, L2>>} THEN 1 ELSE 0]]

(* The users of the liveness instance own no ether. *)
TokenFunds == [c \in Chains |-> [UserFunds[c] EXCEPT ![Eth] = [u \in Users |-> 0]]]

(* Users send the token of L1; or single units of both tokens; or ether; or *)
(* single units of the token of L1, some of them to address(0). The last    *)
(* three kinds of run have one fault and fewer messages.                    *)
Carried(S) == \A c \in Chains : \A n \in DOMAIN sent[c] : sent[c][n].asset \in S
Units == \A c \in Chains : \A n \in DOMAIN sent[c] : sent[c][n].amount <= 1
ToAccounts == \A c \in Chains : \A n \in DOMAIN sent[c] : sent[c][n].to # Zero
AtMost(n) == \A c \in Chains : Len(sent[c]) <= n
Total(n) == Len(sent[L1]) + Len(sent[L2]) <= n
OneKind ==
    \/ Carried({t1}) /\ ToAccounts
    \/ Carried({t1, t2}) /\ ToAccounts /\ Units /\ faults <= 1 /\ AtMost(3) /\ Total(5)
    \/ Carried({Eth}) /\ ToAccounts /\ faults <= 1 /\ AtMost(2)
    \/ Carried({t1}) /\ Units /\ faults <= 1 /\ Total(3)

(* Only these transactions keep to a kind of run. *)
Fits(x, to, a) ==
    /\ to = Zero => x = t1
    /\ a > 1 => x # t2 /\ to # Zero
    /\ Carried(IF x = Eth THEN {Eth} ELSE Tokens)

(* Its value, so that TLC does not take the step once per kind it fits. *)
Kept == OneKind' = TRUE

AssetsNext ==
    \/ \E c \in Chains :
          \/ TaskStep(c)
          \/ \E x \in Assets, to \in Users, a \in Amounts :
                Fits(x, to, a) /\ UserSends(c, x, to, a) /\ Kept
          \/ ScanFails(c) /\ Kept
          \/ HandleFails(c) /\ Kept
          \/ InitFails(c) /\ Kept
    \/ Crash /\ Kept
    \/ Relaunch

AssetsSpec == Init /\ [][AssetsNext]_vars
=============================================================================
