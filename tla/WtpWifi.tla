------------------------------- MODULE WtpWifi -------------------------------
(***************************************************************************)
(* The WiFi interfaces of the AP (wifi.c), step by step: the table wifi[]  *)
(* in its order, the configuration file of each interface, the loops of    *)
(* wtpWiFiOpen and wtpWiFiClose, the commands they hand to utilDoCMD, the  *)
(* scripts these leave running in the background, which nobody waits for,  *)
(* and the way out: SIGINT may come between any two steps, its handler     *)
(* runs on the stack of what it interrupts and never returns there.  Both  *)
(* log, and a record is written under the mutex of log.c.                  *)
(*                                                                         *)
(* The scripts are not part of the sources: the one that starts hostapd is *)
(* taken to serve what the configuration file holds when it runs, the one  *)
(* that stops it to take the interface off the air.                        *)
(***************************************************************************)
EXTENDS Integers, Sequences, SequencesExt

CONSTANTS
  Wlans,      \* the interfaces a WIFICFG may name
  Cfgs,       \* the configurations wtpWiFiWirteFile has a template for
  Offered,    \* the configurations the controller sends, known or not
  MaxTable,   \* bound on the table
  MaxScripts  \* bound on the scripts under way when wtpWiFiOpen is called

ASSUME BoundAssumption == MaxTable \in Nat /\ MaxScripts \in Nat
ASSUME CfgAssumption == {"none", "empty", "off"} \cap (Cfgs \cup Offered) = {}

Entry == [wlan : Wlans, cfg : Offered]
Script == [do : {"start", "stop"}, wlan : Wlans]
NoEntry == [wlan |-> "none", cfg |-> "none"]

VARIABLES
  act,      \* what the process does: join, write, open, run, and in the
            \* signal handler warn, close, exit
  held,     \* whether the interrupted code holds S_log_wr_mutex
  pos,      \* the loop index i of wtpWiFiOpen and wtpWiFiClose, from 1 on
  table,    \* wifi[0 .. S_WiFi_num-1]
  cur,      \* the arguments of the wtpWiFiWirteFile under way
  file,     \* what each /tmp/hostapd-<wlan>.conf holds
  told,     \* history: the interfaces whose last command was to start
  scripts,  \* the background scripts that have not run yet
  air,      \* what each interface serves
  faults    \* history: what failed outside of the program

vars == <<act, held, pos, table, cur, file, told, scripts, air, faults>>

Main == {"join", "write", "open", "run"}
Handler == {"warn", "close", "exit"}

TypeOK ==
  /\ act \in Main \cup Handler /\ held \in BOOLEAN
  /\ pos \in 1 .. MaxTable + 1
  /\ table \in Seq(Entry) /\ Len(table) <= MaxTable
  /\ cur \in Entry \cup {NoEntry}
  /\ file \in [Wlans -> Cfgs \cup {"none", "empty"}]
  /\ told \subseteq Wlans
  /\ scripts \in Seq(Script)
  /\ air \in [Wlans -> Cfgs \cup {"off"}]
  /\ faults \subseteq {"refused", "print", "flush", "start", "stop", "killed",
                       "script", "overtaken"}

Init ==
  /\ act = "join" /\ held = FALSE /\ pos = 1
  /\ table = <<>> /\ cur = NoEntry
  /\ file = [w \in Wlans |-> "none"]
  /\ told = {} /\ scripts = <<>>
  /\ air = [w \in Wlans |-> "off"]
  /\ faults = {}

-----------------------------------------------------------------------------
(* The log                                                                 *)

(* The code that is not the handler does its next step outside of the log. *)
At(step) == act = step /\ ~held

(* __log_base_colour_printf takes the mutex and gives it back; every stage *)
(* has something it may log.                                               *)
LogBegin ==
  /\ act \in Main /\ ~held
  /\ held' = TRUE
  /\ UNCHANGED <<act, pos, table, cur, file, told, scripts, air, faults>>

LogEnd ==
  /\ act \in Main /\ held
  /\ held' = FALSE
  /\ UNCHANGED <<act, pos, table, cur, file, told, scripts, air, faults>>

-----------------------------------------------------------------------------
(* utilDoCMD                                                               *)

Failed(what) == faults' = faults \cup {what}
Launch(do, w) == scripts' = Append(scripts, [do |-> do, wlan |-> w])

(* The command ends in &: what utilDoCMD sees is whether the shell could   *)
(* put it into the background.  Of a shell that was killed WEXITSTATUS is  *)
(* 0, the code of success; when pclose itself fails it is 255.             *)
DoCMD(do, w, ok) ==
  /\ \/ ok /\ Launch(do, w) /\ UNCHANGED faults
     \/ ok /\ UNCHANGED scripts /\ Failed("killed")
     \/ ~ok /\ (Launch(do, w) \/ UNCHANGED scripts) /\ Failed(do)
  /\ told' = IF do = "start" THEN told \cup {w} ELSE told \ {w}

-----------------------------------------------------------------------------
(* wtpWiFiWirteFile                                                        *)

(* fopen "w+" leaves an empty file; where it fails nothing changes.        *)
WriteOpen(e) ==
  /\ At("join") /\ Len(table) < MaxTable
  /\ file' = [file EXCEPT ![e.wlan] = "empty"]
  /\ cur' = e
  /\ act' = "write"
  /\ UNCHANGED <<held, pos, table, told, scripts, air, faults>>

WriteDone_KeepsEntry ==
  /\ At("write") /\ cur.cfg \in Cfgs
  /\ file' = [file EXCEPT ![cur.wlan] = cur.cfg] /\ UNCHANGED faults
  /\ table' = IF \E i \in DOMAIN table : table[i].wlan = cur.wlan
              THEN table ELSE Append(table, cur)
  /\ act' = "join" /\ cur' = NoEntry
  /\ UNCHANGED <<held, pos, told, scripts, air>>

WriteDone_AnyMethod ==
  /\ At("write")
  /\ file' = [file EXCEPT ![cur.wlan] = cur.cfg] /\ UNCHANGED faults
  /\ table' = Append(table, cur)
  /\ act' = "join" /\ cur' = NoEntry
  /\ UNCHANGED <<held, pos, told, scripts, air>>

(* fprintf fills the buffer of the stream, which fclose writes out: that   *)
(* this failed is not seen.  Either way the interface joins the table.     *)
WriteDone ==
  /\ At("write") /\ cur.cfg \in Cfgs
  /\ \/ file' = [file EXCEPT ![cur.wlan] = cur.cfg] /\ UNCHANGED faults
     \/ UNCHANGED file /\ Failed("flush")
  /\ table' = Append(table, cur)
  /\ act' = "join" /\ cur' = NoEntry
  /\ UNCHANGED <<held, pos, told, scripts, air>>

(* No template for the encryption method, or fprintf failed: the reply is  *)
(* refused, the file stays empty.                                          *)
WriteFails ==
  /\ At("write")
  /\ \/ cur.cfg \notin Cfgs /\ Failed("refused")
     \/ cur.cfg \in Cfgs /\ Failed("print")
  /\ act' = "join" /\ cur' = NoEntry
  /\ UNCHANGED <<held, pos, table, file, told, scripts, air>>

-----------------------------------------------------------------------------
(* wtpWiFiOpen and wtpWiFiClose                                            *)

(* A JOIN-REP was accepted.                                                *)
OpenStart ==
  /\ At("join") /\ Len(scripts) <= MaxScripts
  /\ act' = "open" /\ pos' = 1
  /\ UNCHANGED <<held, table, cur, file, told, scripts, air, faults>>

(* The next interface; a command that fails sends the AP back to SULK, and *)
(* from there to another JOIN.                                             *)
OpenStep ==
  /\ At("open") /\ pos <= Len(table)
  /\ \/ DoCMD("start", table[pos].wlan, TRUE) /\ pos' = pos + 1 /\ UNCHANGED act
     \/ DoCMD("start", table[pos].wlan, FALSE) /\ act' = "join" /\ UNCHANGED pos
  /\ UNCHANGED <<held, table, cur, file, air>>

OpenEnd_SkipsLast ==
  /\ At("open") /\ pos >= Len(table)
  /\ act' = "run"
  /\ UNCHANGED <<held, pos, table, cur, file, told, scripts, air, faults>>

OpenEnd ==
  /\ At("open") /\ pos > Len(table)
  /\ act' = "run"
  /\ UNCHANGED <<held, pos, table, cur, file, told, scripts, air, faults>>

(* SIGINT, wherever the process is: exitSignalHandle.                      *)
Interrupt ==
  /\ act \in Main
  /\ act' = "warn"
  /\ UNCHANGED <<held, pos, table, cur, file, told, scripts, air, faults>>

(* The record of exitSignalHandle and, with nothing between the two, that  *)
(* of wtpWiFiClose before its first stop: each waits for the mutex, which  *)
(* the code that was interrupted cannot give back.                         *)
FirstRecords_None == TRUE
FirstRecords == ~held

(* What comes before the first stop.  The records that follow the stops    *)
(* find the mutex as these left it, free.                                  *)
Warn ==
  /\ act = "warn" /\ FirstRecords
  /\ act' = "close" /\ pos' = 1
  /\ UNCHANGED <<held, table, cur, file, told, scripts, air, faults>>

CloseStep_Starts ==
  /\ act = "close" /\ pos <= Len(table)
  /\ DoCMD("start", table[pos].wlan, TRUE) /\ pos' = pos + 1
  /\ UNCHANGED <<act, held, table, cur, file, air>>

(* A stop that fails leaves the interfaces behind it alone.                *)
CloseStep ==
  /\ act = "close" /\ pos <= Len(table)
  /\ \/ DoCMD("stop", table[pos].wlan, TRUE) /\ pos' = pos + 1
     \/ DoCMD("stop", table[pos].wlan, FALSE) /\ pos' = Len(table) + 1
  /\ UNCHANGED <<act, held, table, cur, file, air>>

CloseEnd_SkipsLast ==
  /\ act = "close" /\ pos >= Len(table) /\ ~held
  /\ act' = "exit"
  /\ UNCHANGED <<held, pos, table, cur, file, told, scripts, air, faults>>

(* logClose, which takes the mutex once more, and exit(1); a stream that   *)
(* was still open is flushed.                                              *)
CloseEnd ==
  /\ act = "close" /\ pos > Len(table) /\ ~held
  /\ act' = "exit"
  /\ \/ UNCHANGED file
     \/ cur.cfg \in Cfgs /\ file' = [file EXCEPT ![cur.wlan] = cur.cfg]
  /\ UNCHANGED <<held, pos, table, cur, told, scripts, air, faults>>

-----------------------------------------------------------------------------
(* The background                                                          *)

(* hostapd serves a configuration, and does not come up without one.       *)
Served(w) == IF file[w] \in Cfgs THEN file[w] ELSE "off"

(* A script runs, or fails unseen; it may overtake those started before.   *)
RunScript ==
  /\ \E i \in DOMAIN scripts :
       /\ scripts' = RemoveAt(scripts, i)
       /\ LET s == scripts[i]
              late == IF i = 1 THEN {} ELSE {"overtaken"}
          IN  \/ /\ air' = [air EXCEPT ![s.wlan] =
                              IF s.do = "start" THEN Served(s.wlan) ELSE "off"]
                 /\ faults' = faults \cup late
              \/ /\ UNCHANGED air
                 /\ faults' = faults \cup late \cup {"script"}
  /\ UNCHANGED <<act, held, pos, table, cur, file, told>>

Next ==
  \/ \E e \in Entry : WriteOpen(e)
  \/ WriteDone \/ WriteFails
  \/ OpenStart \/ OpenStep \/ OpenEnd
  \/ LogBegin \/ LogEnd
  \/ Interrupt \/ Warn \/ CloseStep \/ CloseEnd
  \/ RunScript

Spec == Init /\ [][Next]_vars

(* A process that is not blocked goes on.                                  *)
FairSpec ==
  /\ Spec
  /\ WF_vars(LogEnd) /\ WF_vars(Warn \/ CloseStep \/ CloseEnd)
-----------------------------------------------------------------------------

Indexes == {table[i].wlan : i \in DOMAIN table}

(* The configuration the last WIFICFG for w carried that was accepted.     *)
LastCfg(w) ==
  LET at == {i \in DOMAIN table : table[i].wlan = w}
  IN  table[CHOOSE i \in at : \A k \in at : k <= i].cfg

(* Unless writing failed, an interface that is opened has the file of its  *)
(* last configuration, those of replies that were repeated, or refused for *)
(* another reason, included.                                               *)
TableHasFiles ==
  act \in {"open", "run"} /\ faults \cap {"refused", "print", "flush"} = {} =>
    \A w \in Indexes : file[w] = LastCfg(w)

(* When all scripts have run, in whatever order, the AP in RUN serves the  *)
(* whole table, each interface as last configured.  That an earlier call   *)
(* of wtpWiFiOpen failed half way does no harm, though its scripts run     *)
(* while files are rewritten.                                              *)
ServesLast ==
  act = "run" /\ scripts = <<>> /\ faults \subseteq {"start", "overtaken"} =>
    \A w \in Indexes : air[w] = LastCfg(w)

(* The handler of SIGINT waits for the log before it has touched anything, *)
(* or never: it does not take interfaces down and then stay, at logClose.  *)
BlocksEarly == act \in {"close", "exit"} => ~held

(* main.c: the exit closes the WiFi.  When no script and no stop failed    *)
(* and none was overtaken, no interface is on the air once the program has *)
(* ended and its scripts have run, wherever SIGINT met it.                 *)
ExitTurnsOff ==
  /\ act = "exit" /\ scripts = <<>>
  /\ faults \subseteq {"refused", "print", "flush", "start"}
  => \A w \in Wlans : air[w] = "off"

Phase ==
  CASE act \in {"join", "write", "open"} -> "joining"
    [] act = "run" -> "serving"
    [] act \in Handler -> "down"

Radio == INSTANCE WtpRadio WITH
           Interfaces <- Wlans, phase <- Phase, table <- Indexes

(* The single steps add up to the handlers that WtpRadio, and with it Wtp, *)
(* takes as one step, whichever command fails and whenever SIGINT comes.   *)
KeepsRadio == Radio!Spec

(* What the code says of itself and does not keep.                         *)

(* The record of exitSignalHandle, "signal %d, the progress exit": a SIGINT*)
(* the program took ends it.                                               *)
SignalExits == (act = "warn") ~> (act = "exit")
=============================================================================
