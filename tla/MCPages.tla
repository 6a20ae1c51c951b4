------------------------------ MODULE MCPages ------------------------------
(***************************************************************************)
(* The dashboard's pages are documents of their own: one is on the screen  *)
(* and moves, the others stay as they start.                               *)
(***************************************************************************)
EXTENDS DeviceDetail, AdminLists, Reports, Preferences

VARIABLE screen

DeviceScreen == screen = "device" /\ DetailNext /\ UNCHANGED <<adm, rowsDb, rep, tabs, disk, chosen>>
ListScreen == screen = "lists" /\ ListsNext /\ UNCHANGED <<det, share, owned, hist, rep, tabs, disk, chosen>>
ReportScreen ==
    screen = "reports" /\ ReportNext /\ UNCHANGED <<det, share, owned, hist, adm, rowsDb, tabs, disk, chosen>>
SettingsScreen ==
    screen = "settings" /\ PrefNext /\ UNCHANGED <<det, share, owned, hist, adm, rowsDb, rep>>

PagesInit ==
    /\ spent = Unspent
    /\ DetailInit /\ ListsInit /\ ReportInit /\ PrefInit
    /\ screen \in {"device", "lists", "reports", "settings"}
    /\ screen # "lists" => adm.page = "users"
    /\ screen # "settings" =>
          disk.kind = "none" /\ disk.theme = "none" /\ \A t \in Tabs : ~tabs[t].mobile

PagesNext ==
    /\ UNCHANGED screen
    /\ DeviceScreen \/ ListScreen \/ ReportScreen \/ SettingsScreen

PagesSpec == PagesInit /\ [][PagesNext]_<<pageVars, listVars, rep, prefVars, screen>>

=============================================================================
