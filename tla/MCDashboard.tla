---------------------------- MODULE MCDashboard -----------------------------
(* A small instance of DashboardScreens for TLC: review sessions, and the   *)
(* screens that differ in what they load and when.                          *)
EXTENDS DashboardScreens

\* What a screen may see of a row, coarsely: statuses that poll, one of them in
\* a retry, and the end.
MCFlow == [QUEUED |-> {"RETRYING"}, RETRYING |-> {"COMPLETED"}, COMPLETED |-> {}]
MCTerminal == {"COMPLETED"}
MCScreens == {ReviewsScreen, CIRunsScreen, ReviewDetailScreen, CIOverview, DashboardOverview,
              RepositoriesScreen, SettingsScreen}
=============================================================================
