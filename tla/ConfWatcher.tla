----------------------------- MODULE ConfWatcher -----------------------------
(***************************************************************************)
(* Hot reload in dns_relay (dns_relay/src/conf.rs, watch_conf_and_reload): *)
(* a task polls the config file's mtime and, when it changes, loads the    *)
(* file, swaps the rule trie and purges the cache.  The file is edited at  *)
(* any time, also between two steps of the task, and may be invalid or     *)
(* missing in between.                                                     *)
(***************************************************************************)
EXTENDS ResponseCache

CONSTANTS
    Confs,      \* what a valid config file says
    BadConf,    \* a config file that does not parse
    NoFile,     \* no config file at the path
    MaxEdits    \* bound: how often the file is edited

\* A policy per name, as the trie answers for it.  "dead_redirect" is a
\* redirect with no usable IPv4 address, for which no response can be crafted.
Policies == {"none", "drop", "redirect", "dead_redirect"}

\* rules: the trie's answer for each name.  purge: the names the drop list's
\* patterns match literally, which is not the same set: a pattern without "*."
\* also drops the subdomains, a list file's path drops every name in the file,
\* and a redirect on the same name overrides the drop.
ASSUME ConfsAssumption ==
    /\ Confs \subseteq [rules : [Names -> Policies], purge : SUBSET Names]
    /\ Confs # {}
    /\ BadConf \notin Confs /\ NoFile \notin Confs
    /\ MaxEdits \in Nat

VARIABLES
    file,   \* the config file: its mtime and what it says
    seen,   \* last_mtime; 0 is None
    watch,  \* what the watcher does next
    trie    \* the rules in force (the ArcSwap)

watcherVars == <<file, seen, watch, trie>>

\* run_server has loaded the file and built the trie; the watcher has been
\* spawned and has not run yet.
WatcherInit ==
    /\ file \in [mtime : {1}, conf : Confs]
    /\ trie = file.conf
    /\ seen = 0
    /\ watch = "boot"

\* The user writes the file.  Every write changes the mtime.
Edit ==
    /\ file.mtime <= MaxEdits
    /\ \E c \in Confs \cup {BadConf, NoFile} :
          file' = [mtime |-> file.mtime + 1, conf |-> c]
    /\ UNCHANGED <<seen, watch, trie>>

WatchBoot ==
    /\ watch = "boot"
    /\ watch' = "idle"
    /\ seen' = IF file.conf = NoFile THEN 0 ELSE file.mtime
    /\ UNCHANGED <<file, trie>>

\* A tick on which stat works and the mtime differs.  The new mtime is
\* remembered before the file is read.
WatchStat ==
    /\ watch = "idle"
    /\ file.conf # NoFile
    /\ file.mtime # seen
    /\ seen' = file.mtime
    /\ watch' = "load"
    /\ UNCHANGED <<file, trie>>

WatchLoad ==
    /\ watch = "load"
    /\ IF file.conf \in Confs
       THEN trie' = file.conf /\ watch' = "purge"
       ELSE watch' = "idle" /\ UNCHANGED trie
    /\ UNCHANGED <<file, seen>>

\* Bug: the mtime is remembered at the end of a reload.
WatchPurgeRestat ==
    /\ watch = "purge"
    /\ Purge(trie.purge)
    /\ watch' = "idle"
    /\ seen' = file.mtime
    /\ UNCHANGED <<file, trie>>

\* The trie is already in force while the cache is being purged.
WatchPurge ==
    /\ watch = "purge"
    /\ Purge(trie.purge)
    /\ watch' = "idle"
    /\ UNCHANGED <<file, seen, trie>>

-----------------------------------------------------------------------------
(* Properties.                                                              *)

\* A change of the file that the watcher has not looked at yet is eventually in
\* force, unless the file is by then invalid or gone.
EditTakesEffect ==
    watch # "boot" /\ file.mtime # seen ~> trie = file.conf \/ file.conf \notin Confs

=============================================================================
