----------------------------- MODULE KumaAdmin -----------------------------
(* kuma-configure (kuma_admin/__init__.py): create or reuse one push monitor  *)
(* in Kuma for every name asked for, and write their tokens to the file of    *)
(* endpoints.  A run goes monitor by monitor over a connection that can fail  *)
(* anywhere, after a request took effect too, and is simply run again.        *)
EXTENDS Integers, FiniteSets

CONSTANTS Specs,     \* names asked for, in their order: 1..n
          Others,    \* keys that only the file of endpoints has
          Prompt,    \* Kuma's list of monitors comes within the waits for it
          MaxIds     \* monitors ever created

NoToken == 0
Tokens == 1..MaxIds

VARIABLES kuma,      \* Kuma's monitors: the name of each id
          used,      \* ids given out; a new monitor's token is named by its id
          list,      \* monitor_list, the client's copy of kuma
          file,      \* the tokens of the file of endpoints
          run,       \* the running command
          removed,   \* history: names of which an administrator deleted a monitor
          first      \* history: what the file held at the beginning

vars == <<kuma, used, list, file, run, removed, first>>

NoMonitors == [i \in {} |-> 0]
NoRun == [at |-> "idle", next |-> 1, tokens |-> [s \in {} |-> NoToken]]

TypeOK ==
  /\ used \in 0..MaxIds
  /\ DOMAIN kuma \subseteq 1..used /\ \A i \in DOMAIN kuma : kuma[i] \in Specs
  /\ DOMAIN list \subseteq 1..used
  /\ file \in [Specs \cup Others -> {NoToken} \cup Tokens]
  /\ run.at \in {"idle", "login", "list", "spec", "write", "verify", "verified"}
  /\ run.next \in 1..(Cardinality(Specs) + 1) /\ DOMAIN run.tokens = 1..(run.next - 1)
  /\ removed \subseteq Specs

(* A file as an earlier run with other names left it.                         *)
Init ==
  /\ kuma = NoMonitors /\ used = 0 /\ list = NoMonitors
  /\ file \in {[k \in Specs \cup Others |-> IF k \in O THEN MaxIds ELSE NoToken] : O \in SUBSET Others}
  /\ first = file /\ run = NoRun /\ removed = {}

Connect == /\ run.at = "idle" /\ run' = [NoRun EXCEPT !.at = "login"]
           /\ list' = NoMonitors
           /\ UNCHANGED <<kuma, used, file, removed, first>>

(* Kuma takes the session of the browser, of its first or its renewed token.  *)
Login == /\ run.at = "login" /\ run' = [run EXCEPT !.at = "list"]
         /\ UNCHANGED <<kuma, used, list, file, removed, first>>

(* getMonitorList and the waits, whose result nobody looks at.                *)
Listed == {kuma} \cup (IF Prompt THEN {} ELSE {list})

GetList ==
  /\ run.at = "list" /\ list' \in Listed
  /\ run' = [run EXCEPT !.at = "spec"]
  /\ UNCHANGED <<kuma, used, file, removed, first>>

Matches(s) == {i \in DOMAIN list : list[i] = s}
Took(s, token) ==
  run' = [run EXCEPT !.next = s + 1,
                     !.at = IF s = Cardinality(Specs) THEN "write" ELSE "spec",
                     !.tokens = [n \in 1..s |-> IF n = s THEN token ELSE run.tokens[n]]]

(* Defect: a fresh one is stored, as for a monitor that is created.           *)
ReusedToken_Fresh(i) == MaxIds

(* The token of a monitor that is reused: the one that it has.                *)
ReusedToken(i) == i

(* editMonitor keeps the monitor, its token and its inversion.                *)
Reuse(s) ==
  /\ run.at = "spec" /\ run.next = s
  /\ \E i \in Matches(s) : Matches(s) = {i} /\ i \in DOMAIN kuma /\ Took(s, ReusedToken(i))
  /\ UNCHANGED <<kuma, used, list, file, removed, first>>

(* add; the answer can be lost after the monitor was created.                 *)
Create(s) ==
  /\ run.at = "spec" /\ run.next = s /\ Matches(s) = {} /\ used < MaxIds
  /\ used' = used + 1
  /\ kuma' = [i \in DOMAIN kuma \cup {used'} |-> IF i = used' THEN s ELSE kuma[i]]
  /\ Took(s, used') \/ run' = NoRun
  /\ UNCHANGED <<list, file, removed, first>>

(* _write_credentials: endpoints of other names stay.                         *)
Write ==
  /\ run.at = "write"
  /\ file' = [k \in DOMAIN file |-> IF k \in Specs THEN run.tokens[k] ELSE file[k]]
  /\ run' = [run EXCEPT !.at = "verify"]
  /\ UNCHANGED <<kuma, used, list, removed, first>>

(* The list is read again and must hold each name exactly once.               *)
Verify ==
  /\ run.at = "verify" /\ list' \in Listed
  /\ run' = IF Cardinality({i \in DOMAIN list' : list'[i] \in Specs}) = Cardinality(Specs)
            THEN [run EXCEPT !.at = "verified"] ELSE NoRun
  /\ UNCHANGED <<kuma, used, file, removed, first>>

(* A request fails, two monitors have the name, the file cannot be written,   *)
(* the command is interrupted; or it ends well.                               *)
Ends == /\ run.at # "idle" /\ run' = NoRun
        /\ UNCHANGED <<kuma, used, list, file, removed, first>>

(* An administrator deletes a monitor in Kuma.                                *)
Delete ==
  /\ \E i \in DOMAIN kuma : /\ kuma' = [j \in DOMAIN kuma \ {i} |-> kuma[j]]
                            /\ removed' = removed \cup {kuma[i]}
  /\ UNCHANGED <<used, list, file, run, first>>

Configure == Connect \/ Login \/ GetList \/ (\E s \in Specs : Reuse(s) \/ Create(s))
             \/ Write \/ Verify \/ Ends
Next == Configure \/ Delete
Spec == Init /\ [][Next]_vars

----------------------------------------------------------------------------
(* However often a run was cut short and repeated, no name has two monitors,  *)
(* which would refuse every later run; what the file says of a name is the    *)
(* token of its monitor unless that was deleted in Kuma; a verified run left  *)
(* every name that nobody deleted with its endpoint; and no other is touched. *)
EndpointsAreLive ==
  /\ \A i, j \in DOMAIN kuma : kuma[i] = kuma[j] => i = j
  /\ \A s \in Specs \ removed :
       /\ file[s] # NoToken => file[s] \in DOMAIN kuma /\ kuma[file[s]] = s
       /\ run.at = "verified" => file[s] # NoToken
  /\ \A k \in Others : file[k] = first[k]

=============================================================================
