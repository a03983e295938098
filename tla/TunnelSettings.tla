--------------------------- MODULE TunnelSettings ---------------------------
(***************************************************************************)
(* The network settings: tunnel_config.json behind a cache that is good    *)
(* for 30 seconds. A load that finds no cache reads the file and then puts *)
(* what it read into the cache; a save writes the file and then puts its   *)
(* settings into the cache. The mutex guards the cache and not the file,   *)
(* so a load or a save can be overtaken between the two.                   *)
(*                                                                         *)
(* An edit is the number of the save it came with. 0 is the empty settings *)
(* that a missing or unreadable file stands for; they are never cached.    *)
(***************************************************************************)
EXTENDS Naturals

CONSTANTS
    Editors,            \* concurrent request goroutines
    CacheTTL,           \* tunnelConfigCacheTTL
    LastTick,           \* bound: the clock stops here
    MaxEdits            \* bound: saves

ASSUME TunnelConstants == CacheTTL \in Nat \ {0} /\ LastTick \in Nat /\ MaxEdits \in Nat

VARIABLES
    tick,               \* the clock
    tunnelFile,         \* the edit in the file
    cache,              \* the edit in the cache and the time it got there
    edits,              \* edits so far
    editor,             \* [Editors -> Editor]
    overtaken           \* history: 1 + the time at which something other than the file's
                        \* content last stayed in the cache or got into it, or 0

tunnelVars == <<tick, tunnelFile, cache, edits, editor, overtaken>>

Edits == 0..MaxEdits
NoCache == [edit |-> 0, at |-> 0]
Editor == [pc : {"idle", "reading", "filling", "writing", "caching"}, edit : Edits]
NoEditor == [pc |-> "idle", edit |-> 0]

TunnelTypeOK ==
    /\ tick \in Nat
    /\ tunnelFile \in Edits /\ edits \in Edits
    /\ cache \in [edit : Edits, at : Nat]
    /\ editor \in [Editors -> Editor]
    /\ overtaken \in Nat

TunnelInit ==
    /\ tick = 0 /\ tunnelFile = 0 /\ cache = NoCache /\ edits = 0
    /\ editor = [p \in Editors |-> NoEditor]
    /\ overtaken = 0

CacheFresh == cache.edit # 0 /\ tick - cache.at < CacheTTL

EditorAt(p, pc, e) == editor' = [editor EXCEPT ![p] = [pc |-> pc, edit |-> e]]
EditorDone(p) == editor' = [editor EXCEPT ![p] = NoEditor]

-----------------------------------------------------------------------------
(* loadTunnelConfig *)

\* mutant: a hit counts as a fill
AfterHit_Refreshed == [cache EXCEPT !.at = tick]

AfterHit == cache

LoadCached ==
    /\ CacheFresh
    /\ cache' = AfterHit
    /\ UNCHANGED <<tick, tunnelFile, edits, editor, overtaken>>

BeginLoad(p) ==
    /\ editor[p] = NoEditor
    /\ ~CacheFresh
    /\ EditorAt(p, "reading", 0)
    /\ UNCHANGED <<tick, tunnelFile, cache, edits, overtaken>>

ReadFile(p) ==
    /\ editor[p].pc = "reading"
    /\ IF tunnelFile = 0 THEN EditorDone(p) ELSE EditorAt(p, "filling", tunnelFile)
    /\ UNCHANGED <<tick, tunnelFile, cache, edits, overtaken>>

FillCache(p, pc) ==
    /\ editor[p].pc = pc
    /\ cache' = [edit |-> editor[p].edit, at |-> tick]
    /\ overtaken' = IF editor[p].edit # tunnelFile THEN tick + 1 ELSE overtaken
    /\ EditorDone(p)
    /\ UNCHANGED <<tick, tunnelFile, edits>>

-----------------------------------------------------------------------------
(* saveTunnelURL and saveTunnelConfig *)

\* The settings sent are sound. For the network they replace, see loadTunnelConfig; the
\* file that asks the tunnel container for a new URL is read by nobody here.
BeginSave(p) ==
    /\ editor[p] = NoEditor
    /\ edits < MaxEdits
    /\ edits' = edits + 1
    /\ EditorAt(p, "writing", edits')
    /\ UNCHANGED <<tick, tunnelFile, cache, overtaken>>

\* A write that fails leaves the file as it was, or cut short; the cache stays
WriteFile(p) ==
    /\ editor[p].pc = "writing"
    /\ \/ /\ tunnelFile' = editor[p].edit
          /\ EditorAt(p, "caching", editor[p].edit)
          /\ UNCHANGED overtaken
       \/ /\ tunnelFile' \in {tunnelFile, 0}
          /\ overtaken' = tick + 1
          /\ EditorDone(p)
    /\ UNCHANGED <<tick, cache, edits>>

-----------------------------------------------------------------------------
NextTick ==
    /\ tick < LastTick
    /\ tick' = tick + 1
    /\ UNCHANGED <<tunnelFile, cache, edits, editor, overtaken>>

RestartTunnel ==
    /\ cache' = NoCache
    /\ editor' = [p \in Editors |-> NoEditor]
    /\ UNCHANGED <<tick, tunnelFile, edits, overtaken>>

TunnelNext ==
    \/ LoadCached
    \/ \E p \in Editors :
        \/ BeginLoad(p) \/ ReadFile(p) \/ BeginSave(p) \/ WriteFile(p)
        \/ \E pc \in {"filling", "caching"} : FillCache(p, pc)
    \/ NextTick
    \/ RestartTunnel

TunnelSpec == TunnelInit /\ [][TunnelNext]_tunnelVars

-----------------------------------------------------------------------------
(* What it guarantees *)

\* Settings that are not those of the file are served for at most 30 seconds after
\* the last request that was overtaken, or failed, on its way to the cache, and while
\* a save is between the file and the cache; never because somebody keeps asking.
CacheCatchesUp ==
    CacheFresh /\ cache.edit # tunnelFile =>
        \/ \E p \in Editors : editor[p].pc = "caching"
        \/ tick < overtaken - 1 + CacheTTL
=============================================================================
