---------------------------- MODULE Preferences ----------------------------
(***************************************************************************)
(* The settings of one browser (lib/settings.ts, the settings and theme    *)
(* stores, SettingsPage) in several tabs.  Every tab reads localStorage    *)
(* once, keeps the whole settings object, and writes all of it at each     *)
(* change; nothing tells a tab what another one has written.               *)
(***************************************************************************)
EXTENDS PageRequests

CONSTANTS
    Tabs,
    PlainKeys  \* settings whose default does not depend on the window

VARIABLES
    tabs,      \* per tab: its window, $localSettings and $theme
    disk,      \* localStorage: the settings and the theme
    chosen     \* ghost: the user's last choice of every key, and spoiled

prefVars == <<tabs, disk, chosen, spent>>

SettingKeys == PlainKeys \cup {"sidebarInitialState"}
Allowed(k) == IF k \in PlainKeys THEN {"first", "other"} ELSE {"expanded", "collapsed"}
Settings == {s \in [SettingKeys -> {"first", "other", "expanded", "collapsed"}] :
                \A k \in SettingKeys : s[k] \in Allowed(k)}

\* The defaults of a window; a narrow one starts with its sidebar collapsed.
getDefaultSettings(mobile) ==
    [k \in SettingKeys |-> IF k \in PlainKeys THEN "first"
                           ELSE IF mobile THEN "collapsed" ELSE "expanded"]

\* Key by key: what is not allowed becomes the default.
sanitizeSettings(s, mobile) ==
    [k \in SettingKeys |-> IF s[k] \in Allowed(k) THEN s[k] ELSE getDefaultSettings(mobile)[k]]

\* What a tab that is opened now would show.  "none": no item; "garbage": text
\* that is not JSON; a key that is missing or not allowed is "bad".
Reading(mobile) ==
    IF disk.kind = "object" THEN sanitizeSettings(disk.item, mobile)
    ELSE getDefaultSettings(mobile)

---------------------------------------------------------------------------
(* Storage                                                                 *)

\* setItem may throw: storage that is full or switched off.
Attempt(ok) ==
    /\ spent.clicks < MaxClicks
    /\ ok \/ spent.failures < MaxFailures
    /\ spent' = [clicks |-> spent.clicks + 1, failures |-> spent.failures + IF ok THEN 0 ELSE 1]

\* Ghosts: a tab is behind once another one has saved, and unsaved after a save
\* of its own that failed.  new holds the tabs with the caller's own changes.
saveSettingsPreferences(t, s, new, ok) ==
    IF ok
    THEN /\ disk' = [disk EXCEPT !.kind = "object", !.item = s]
         /\ tabs' = [u \in Tabs |-> [new[u] EXCEPT !.behind = u # t,
                                                   !.unsaved = @ /\ u # t]]
    ELSE /\ UNCHANGED disk
         /\ tabs' = [new EXCEPT ![t].unsaved = TRUE]

\* readSettingsPreferences repairs what it cannot use; an absent item is left
\* absent.
Repairs(mobile) ==
    \/ disk.kind = "garbage"
    \/ disk.kind = "object" /\ disk.item # Reading(mobile)

\* theme-init.js on a system that prefers light.
InitialTheme == IF disk.theme = "none" THEN "light" ELSE disk.theme

---------------------------------------------------------------------------
(* One tab                                                                 *)

\* A document is opened in the tab: the stores are filled from localStorage.
\* Reloads and the links of a language (changeLocale, LanguageToggle) open one.
OpenDocument(t) ==
    \E ok \in BOOLEAN :
        LET m   == tabs[t].mobile
            new == [tabs EXCEPT ![t] = [open |-> TRUE, mobile |-> m, mem |-> Reading(m),
                                        theme |-> InitialTheme, behind |-> FALSE,
                                        unsaved |-> FALSE]]
        IN  /\ Attempt(ok)
            /\ IF Repairs(m) THEN saveSettingsPreferences(t, Reading(m), new, ok)
               ELSE ok /\ tabs' = new /\ UNCHANGED disk
            /\ UNCHANGED chosen

\* The window is made narrower or wider; only the next read or reset asks.
Resize(t) ==
    /\ Attempt(TRUE)
    /\ tabs' = [tabs EXCEPT ![t].mobile = ~@]
    /\ UNCHANGED <<disk, chosen>>

\* Mutant: the copy is written before the new value is put into it.
updateLocalSettingEarly(t, k, v, ok) ==
    LET next == sanitizeSettings([tabs[t].mem EXCEPT ![k] = v], tabs[t].mobile)
    IN  saveSettingsPreferences(t, tabs[t].mem, [tabs EXCEPT ![t].mem = next], ok)

updateLocalSetting(t, k, v, ok) ==
    LET next == sanitizeSettings([tabs[t].mem EXCEPT ![k] = v], tabs[t].mobile)
    IN  saveSettingsPreferences(t, next, [tabs EXCEPT ![t].mem = next], ok)

\* A radio button, a checkbox or a select of SettingsPage.
Choose(t, k, v) ==
    \E ok \in BOOLEAN :
        /\ tabs[t].open
        /\ Attempt(ok)
        /\ updateLocalSetting(t, k, v, ok)
        /\ chosen' = [key |-> [chosen.key EXCEPT ![k] = v],
                      spoiled |-> chosen.spoiled \/ ~ok \/ tabs[t].behind]

\* The select of SettingsPage and ThemeToggle.
setTheme(t, x) ==
    \E ok \in BOOLEAN :
        /\ tabs[t].open /\ tabs[t].theme # x
        /\ Attempt(ok)
        /\ tabs' = [tabs EXCEPT ![t].theme = x]
        /\ disk' = IF ok THEN [disk EXCEPT !.theme = x] ELSE disk
        /\ UNCHANGED chosen

\* resetLocalSettings, and then the light theme: two writes that fail alone.
reset(t) ==
    \E ok, themed \in BOOLEAN :
        LET d == getDefaultSettings(tabs[t].mobile)
            w == [tabs[t] EXCEPT !.mem = d, !.theme = "light"]
        IN  /\ tabs[t].open
            /\ Attempt(ok /\ themed)
            /\ disk' = [kind  |-> IF ok THEN "object" ELSE disk.kind,
                        item  |-> IF ok THEN d ELSE disk.item,
                        theme |-> IF themed THEN "light" ELSE disk.theme]
            /\ tabs' = [u \in Tabs |->
                  IF u = t THEN [w EXCEPT !.behind = @ /\ ~ok, !.unsaved = ~ok]
                  ELSE [tabs[u] EXCEPT !.behind = @ \/ ok]]
            /\ chosen' = [key |-> d, spoiled |-> ~ok]

---------------------------------------------------------------------------

ClosedTab == [open : {FALSE}, mobile : BOOLEAN, mem : {getDefaultSettings(FALSE)},
              theme : {"light"}, behind : {FALSE}, unsaved : {FALSE}]

\* Whatever an older version or a hand has left in localStorage.
Unread == [kind : {"none", "garbage"}, item : {getDefaultSettings(FALSE)},
           theme : {"none", "dark"}]
Outdated == {[k \in SettingKeys |-> "bad"]} \cup
            {[s EXCEPT ![k] = "bad"] : s \in Settings, k \in SettingKeys}

PrefInit ==
    /\ tabs \in [Tabs -> ClosedTab]
    /\ disk \in Unread \cup [kind : {"object"}, item : Outdated, theme : {"none"}]
    /\ chosen = [key |-> [k \in SettingKeys |-> "unset"], spoiled |-> FALSE]

PrefNext ==
    \E t \in Tabs :
        \/ OpenDocument(t) \/ Resize(t) \/ reset(t)
        \/ \E k \in SettingKeys : \E v \in Allowed(k) : Choose(t, k, v)
        \/ \E x \in {"light", "dark"} : setTheme(t, x)

---------------------------------------------------------------------------
(* Properties                                                              *)

\* Tabs do not hear of each other and each writes the whole object.  Still a
\* reload of a tab changes nothing if no other tab has saved since it read and
\* its own last save went well; and as long as tabs that have missed a save
\* write nothing and no save fails, every choice made in any of them is what
\* the next document reads, in a window of any width.
SettingsSurvive ==
    /\ \A t \in Tabs : LET w == tabs[t] IN
          (w.open /\ disk.kind = "object" /\ ~w.behind /\ ~w.unsaved)
                => w.mem = Reading(w.mobile)
    /\ ~chosen.spoiled =>
          \A k \in SettingKeys : chosen.key[k] = "unset" \/
              \A m \in BOOLEAN : Reading(m)[k] = chosen.key[k]

=============================================================================
