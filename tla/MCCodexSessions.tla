-------------------------- MODULE MCCodexSessions --------------------------
(* Small instances of CodexSessions. *)
EXTENDS CodexSessions

(* The first call is written as older versions of Codex do, the second is  *)
(* under another rate limit id.                                            *)
TwoSources == {"codex", "other"}
MCLastOf == [c \in 1..MaxCalls |-> IF c = 1 THEN 0 ELSE 1]
MCSourceOf == [c \in 1..MaxCalls |-> IF c = 2 THEN "other" ELSE "codex"]
=============================================================================
