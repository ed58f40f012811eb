-------------------------- MODULE KillSwitchLedger --------------------------
(***************************************************************************)
(* What the kill switch promises: one append-only list of versions for the *)
(* tenant and one for each campaign, changed atomically.  Version v of a   *)
(* target is the v-th entry of its ledger.  Module KillSwitch shows that   *)
(* the transactions of the repository implement this module, and           *)
(* MetaExecution composes it with the executor.                            *)
(***************************************************************************)
EXTENDS Naturals, Sequences

CONSTANT Targets   \* the tenant and its campaigns

VARIABLE ledger   \* [Targets -> Seq(SwitchStatus)]

SwitchStatus == {"engaged", "released"}

LedgerInit == ledger = [t \in Targets |-> <<>>]

\* latest: the status of the highest version, "missing" when there is none.
Latest(t) == IF ledger[t] = <<>> THEN "missing" ELSE ledger[t][Len(ledger[t])]

\* appendNext: asking for the status the target already has adds no version.
AppendNext(t, status) ==
  ledger' = IF Latest(t) = status
            THEN ledger
            ELSE [ledger EXCEPT ![t] = Append(@, status)]

\* changeTenant and changeCampaign, as an operator calls them.
Change(t, status) ==
  /\ Latest(t) # status
  /\ AppendNext(t, status)

LedgerNext == \E t \in Targets, status \in SwitchStatus : Change(t, status)

LedgerSpec == LedgerInit /\ [][LedgerNext]_ledger
=============================================================================
