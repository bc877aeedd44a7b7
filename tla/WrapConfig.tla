------------------------------ MODULE WrapConfig -----------------------------
(***************************************************************************)
(* The files behind `mcp-authz wrap <file>` (wrap-config.ts, cli.ts): the  *)
(* config a person edits, and beside it the record of each tool's          *)
(* definition. `tools --out` and `--refresh` write one and then the other, *)
(* `wrap` reads one and then the other, `tools --check` compares both with *)
(* the server. Any of them may be killed between two steps.                *)
(*                                                                         *)
(* A definition is a number, 0 where there is none. A write cut short      *)
(* leaves its file torn. A person edits a config between saves, never      *)
(* within one, which takes milliseconds.                                   *)
(***************************************************************************)
EXTENDS Naturals, FiniteSets

CONSTANTS WcTools, Versions,
          Plain,      \* <<tool, version>> that claims to be read-only and raises no warning
          WcLimit     \* how often the server changes, a person edits, a command dies

ASSUME WrapConfigAssumption == Versions \in Nat

VARIABLES server,     \* tool -> the definition the server offers
          conf,       \* [is, mode, names]: "allow" lists what is on, "deny" what is off
          rec,        \* [is, of]: tool -> its recorded definition
          cmd,        \* the `tools` command under way: [at, found]; "first" and "again" are between its
              \* writes, with no config before them or with one
          wrapped,    \* the `wrap` under way: [at, mode, names, pinned, pair]; what it reads is `patched`
              \* where the record is not the config's own, as history
          consent,    \* history: <<tool, version>> somebody or the default switched on; version 0
              \* is whatever the server adds, which a person leaves on with a deny list
          patchwork,  \* history: the record predates a config made without it
          changes
wcVars == <<server, conf, rec, cmd, wrapped, consent, patchwork, changes>>

Definition == 0..Versions
NoTool == [t \in WcTools |-> 0]
NoConf == [is |-> "missing", mode |-> "allow", names |-> {}]
NoRec == [is |-> "missing", of |-> NoTool]
NoCmd == [at |-> "idle", found |-> NoTool]
NoWrap == [at |-> "off", mode |-> "allow", names |-> {}, pinned |-> NoTool, pair |-> "whole"]
Saving == cmd.at \in {"first", "again"}

Recorded(r) == {t \in WcTools : r.of[t] # 0}
On(mode, names, t) == IF mode = "allow" THEN t \in names ELSE t \notin names
Bounded == changes < WcLimit /\ changes' = changes + 1

WcInit ==
  /\ server \in [WcTools -> Definition]
  /\ conf = NoConf /\ rec = NoRec /\ cmd = NoCmd /\ wrapped = NoWrap
  /\ consent = {} /\ patchwork = FALSE /\ changes = 0

\* discover: every page of the server's tools.
Discovered == server

\* listTools: a refresh reads its config first, then both ask the server.
Discover(refresh) ==
  /\ cmd.at = "idle"
  /\ refresh => conf.is = "ok"
  /\ cmd' = [at |-> "found", found |-> Discovered]
  /\ UNCHANGED <<server, conf, rec, wrapped, consent, patchwork, changes>>

\* A wrap that has read the config alone goes on with a record that is not its own.
Overtaken == IF wrapped.at = "config" THEN [wrapped EXCEPT !.pair = "patched"] ELSE wrapped

\* Mutant of Chosen: what is on stays on, whatever it has become.
ChosenByName(t) ==
  /\ cmd.found[t] # 0
  /\ CASE conf.is = "missing" -> <<t, cmd.found[t]>> \in Plain
       [] conf.is = "ok" -> On(conf.mode, conf.names, t)
\* chosen: read-only tools of a fresh config; else what was on and is still as recorded.
Chosen(t) ==
  /\ cmd.found[t] # 0
  /\ CASE conf.is = "missing" -> <<t, cmd.found[t]>> \in Plain
       [] conf.is = "ok" -> /\ rec.is = "ok" /\ rec.of[t] = cmd.found[t]
                            /\ On(conf.mode, conf.names, t)

\* writeWrapConfig, its first write. A config that does not parse stops the command.
SaveConfig ==
  /\ cmd.at = "found" /\ conf.is # "torn"
  /\ conf' = [is |-> "ok", mode |-> "allow", names |-> {t \in WcTools : Chosen(t)}]
  /\ cmd' = [cmd EXCEPT !.at = IF conf.is = "missing" THEN "first" ELSE "again"]
  /\ consent' = consent \cup (IF conf.is # "missing" THEN {} ELSE
                              {<<t, cmd.found[t]>> : t \in {s \in WcTools : Chosen(s)}})
  /\ wrapped' = Overtaken
  /\ UNCHANGED <<server, rec, patchwork, changes>>

SaveRefused ==
  /\ cmd.at = "found" /\ conf.is = "torn"
  /\ cmd' = NoCmd
  /\ UNCHANGED <<server, conf, rec, wrapped, consent, patchwork, changes>>

\* Its second write: the schema, with the record in it.
SaveRecord ==
  /\ Saving
  /\ rec' = [is |-> "ok", of |-> cmd.found]
  /\ cmd' = NoCmd
  /\ wrapped' = Overtaken
  /\ patchwork' = (patchwork /\ cmd.at # "first")
  /\ UNCHANGED <<server, conf, consent, changes>>

\* The command dies before a write, or within one.
CommandDies(torn) ==
  /\ (cmd.at = "found" \/ Saving) /\ Bounded
  /\ conf' = IF torn /\ cmd.at = "found" THEN [NoConf EXCEPT !.is = "torn"] ELSE conf
  /\ rec' = IF torn /\ Saving THEN [NoRec EXCEPT !.is = "torn"] ELSE rec
  /\ patchwork' = (patchwork \/ (cmd.at = "first" /\ rec'.is = "ok"))
  /\ cmd' = NoCmd
  /\ UNCHANGED <<server, wrapped, consent>>

\* readWrapConfig reads the config, then recordedTools the schema beside it.
WrapReadsConfig ==
  /\ wrapped.at = "off" /\ conf.is = "ok"
  /\ wrapped' = [at |-> "config", mode |-> conf.mode, names |-> conf.names, pinned |-> NoTool,
                 pair |-> IF patchwork \/ cmd.at = "first" THEN "patched" ELSE "whole"]
  /\ UNCHANGED <<server, conf, rec, cmd, consent, patchwork, changes>>

\* A missing or damaged record, or a name it lacks, stops wrap.
WrapReadsRecord ==
  /\ wrapped.at = "config"
  /\ wrapped' = IF rec.is = "ok" /\ wrapped.names \subseteq Recorded(rec)
                THEN [wrapped EXCEPT !.at = "running", !.pinned = rec.of] ELSE NoWrap
  /\ UNCHANGED <<server, conf, rec, cmd, consent, patchwork, changes>>

WrapEnds ==
  /\ wrapped.at = "running"
  /\ wrapped' = NoWrap
  /\ UNCHANGED <<server, conf, rec, cmd, consent, patchwork, changes>>

\* What wrap shows of a listing: what is on and is the definition it was pinned to. What the
\* record lacks is hidden from an allow list alone.
Shows(w, t) ==
  /\ server[t] # 0 /\ On(w.mode, w.names, t)
  /\ IF w.pinned[t] = 0 THEN w.mode = "deny" ELSE w.pinned[t] = server[t]

\* A person switches a tool on or off, or turns to a deny list: what is on then, they agree to as
\* the record has it, and with a deny list to what it lacks. A config that is in the way is moved
\* aside, its record stays.
Agrees(mode, names) ==
  {<<t, rec.of[t]>> : t \in {s \in WcTools : On(mode, names, s) /\ (rec.of[s] = 0 => mode = "deny")}}
Edits(mode, names) ==
  /\ conf.is = "ok" /\ ~Saving /\ Bounded
  /\ conf' = [is |-> "ok", mode |-> mode, names |-> names]
  /\ consent' = consent \cup Agrees(mode, names)
  /\ patchwork' = FALSE
  /\ UNCHANGED <<server, rec, cmd, wrapped>>

MovesAside ==
  /\ conf.is # "missing" /\ cmd.at = "idle" /\ Bounded
  /\ conf' = NoConf
  /\ UNCHANGED <<server, rec, cmd, wrapped, consent, patchwork>>

ServerUpgrades(t, v) ==
  /\ server[t] # v /\ Bounded
  /\ server' = [server EXCEPT ![t] = v]
  /\ UNCHANGED <<conf, rec, cmd, wrapped, consent, patchwork>>

WcNext ==
  \/ \E refresh \in BOOLEAN : Discover(refresh)
  \/ SaveConfig \/ SaveRefused \/ SaveRecord \/ \E torn \in BOOLEAN : CommandDies(torn)
  \/ WrapReadsConfig \/ WrapReadsRecord \/ WrapEnds
  \/ \E mode \in {"allow", "deny"}, names \in SUBSET WcTools : Edits(mode, names)
  \/ MovesAside
  \/ \E t \in WcTools, v \in Definition : ServerUpgrades(t, v)
WcSpec == WcInit /\ [][WcNext]_wcVars

\* Mutant of CheckPasses: only names are compared.
CheckPassesByName ==
  /\ conf.is = "ok" /\ rec.is = "ok" /\ conf.names \subseteq Recorded(rec)
  /\ \A t \in conf.names : server[t] # 0
\* checkWrapConfig: whether `tools --check` ends with 0.
CheckPasses ==
  /\ conf.is = "ok" /\ rec.is = "ok" /\ conf.names \subseteq Recorded(rec)
  /\ \A t \in conf.names : server[t] # 0
  /\ \A t \in WcTools : server[t] = rec.of[t]

-----------------------------------------------------------------------------
(* Properties.                                                             *)

\* Shape of the state.
WcTypeOK ==
  /\ server \in [WcTools -> Definition]
  /\ conf \in [is : {"missing", "torn", "ok"}, mode : {"allow", "deny"}, names : SUBSET WcTools]
  /\ rec \in [is : {"missing", "torn", "ok"}, of : [WcTools -> Definition]]
  /\ cmd \in [at : {"idle", "found", "first", "again"}, found : [WcTools -> Definition]]
  /\ wrapped \in [at : {"off", "config", "running"}, mode : {"allow", "deny"}, names : SUBSET WcTools,
                  pinned : [WcTools -> Definition], pair : {"whole", "patched"}]
  /\ consent \subseteq WcTools \X Definition

\* What wrap shows, somebody agreed to with that very definition, or the first save switched on
\* as read-only, or, where the record has none, somebody left on with a deny list: through server
\* upgrades, refreshes, edits, and commands that die between or within their writes
\* (wrap-config.ts:108-187, 321-333; wrap.ts:83-96). Excepted are a wrap that starts while a save
\* is under way, and a first save that died leaving the record of a config moved aside.
HeldToConsent ==
  wrapped.at = "running" /\ wrapped.pair = "whole" =>
    \A t \in WcTools : Shows(wrapped, t) =>
        <<t, IF wrapped.pinned[t] = 0 THEN 0 ELSE server[t]>> \in consent

\* When `tools --check` passes, every tool the server offers and the config has on is, as the
\* server defines it now, what somebody agreed to: a drift it lets by would start unseen
\* (cli.ts:310-345). The same two cases are excepted.
CheckMeansConsent ==
  CheckPasses /\ ~Saving /\ ~patchwork =>
    \A t \in WcTools : server[t] # 0 /\ On(conf.mode, conf.names, t) => <<t, server[t]>> \in consent
=============================================================================
