------------------------------ MODULE MCAlerts ------------------------------
(* Small instances of Alerts for TLC.                                      *)
EXTENDS Alerts

CONSTANTS a, o1, o2, vk, p, h1, h2

Ids == [o \in Objects |-> a]

Answer(check, balance) == [account_check |-> check, low_balance |-> balance]
BalanceAnswers == {Answer("full", "unknown"), Answer("fine", "near"),
                   Answer("fine", "full")}
NoAnswers == {Answer("fine", "fine")}

TokenQuota == <<"quota_tokens">>
NoQuota == <<>>

Setting(webhook, early, length) ==
  [webhook |-> webhook, early |-> early, window |-> length, atLeast |-> 2, rate |-> 30]
AllOrCritical == {Setting("all", TRUE, 1), Setting("critical", FALSE, 1)}
TwoWindows == {Setting("all", TRUE, 1), Setting("all", TRUE, 2)}
OneSetting == {Setting("all", TRUE, 1)}

\* Handlers are alike.
Symmetric == Permutations(Handlers)

LowBalanceFails == {<<"low_balance", a>>}
=============================================================================
