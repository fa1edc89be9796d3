----------------------------- MODULE MCWorkers -----------------------------
(***************************************************************************)
(* An instance of Workers for TLC: days of three minutes, and an           *)
(* administrator who moves to another app, the two rows in one request, or *)
(* edits the time of the day end.                                          *)
(***************************************************************************)
EXTENDS Workers, TLC

CONSTANTS app1, app2, secret1, secret2, url

App(app, secret) == [app |-> app, secret |-> secret]

MCApps == {App(app1, secret1), App(app2, secret2)}

MCSeeds == (DayEndTime :> Blank) @@ (AppID :> Blank) @@ (AppSecret :> Blank)

\* A database in use, from before report_target_url was dropped, its day end
\* mistyped
MCOldSettings ==
  (DayEndTime :> Invalid) @@ (AppID :> app1) @@ (AppSecret :> secret1)
    @@ ("report_target_url" :> url)

MCObsolete == {"report_target_url"}

Item(key, value) == [key |-> key, value |-> value]

MCUpdates ==
  { <<Item(AppID, app2), Item(AppSecret, secret2)>>,
    <<Item(DayEndTime, 0)>>, <<Item(DayEndTime, Invalid)>> }
=============================================================================
