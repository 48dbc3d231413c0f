---------------------------- MODULE MCNativeSteers ----------------------------
(* Instances of NativeSteers. *)
EXTENDS NativeSteers

CONSTANTS s1, s2

\* two steers under a prompt timer, with and without watchers that stall; one steer
\* and a follow-up under everything the scheduling can do
SteerWorlds ==
    [steers : {{s1, s2}}, plain : {0}, stalls : BOOLEAN, slow : {FALSE}, lags : {FALSE}]
    \cup [steers : {{s1}}, plain : {1}, stalls : BOOLEAN, slow : BOOLEAN, lags : BOOLEAN]

\* a watcher may stall past its round and past the fallback's timer
StalledWorlds ==
    [steers : {{s1}}, plain : {1}, stalls : {TRUE}, slow : {TRUE}, lags : {FALSE}]

\* everything is prompt
PromptWorlds ==
    [steers : {{s1}}, plain : {1}, stalls : {FALSE}, slow : {FALSE}, lags : {FALSE}]
=============================================================================
