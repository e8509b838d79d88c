----------------------------- MODULE MCMineCommand -----------------------------
(***************************************************************************)
(* Trees of 32 to 128 leaves, with the five rounds of the program: at 32   *)
(* the buds of every leaf but one go round the end.  Three threads.  The   *)
(* nonces of a program are searched with every backend, in batches of      *)
(* four, up to limits that a batch runs past.                              *)
(***************************************************************************)
EXTENDS MineCommand

Nonces(start, count) == Range0(start, count) \X Threads

LegacyJob(height, reversed, start, count, wins) ==
    [height |-> height, reversed |-> reversed, start |-> start, count |-> count,
     words |-> [n \in Nonces(start, count) |-> <<37 * n[1] + 11 * n[2] + 3, 90 - 29 * n[1] + n[2]>>],
     wins |-> wins]

MCLegacy ==
    <<LegacyJob(5, TRUE, 0, 3, {<<1, 0>>, <<2, 1>>}), LegacyJob(5, FALSE, 1, 2, {<<1, 1>>}),
      LegacyJob(6, TRUE, 0, 2, {<<0, 0>>, <<1, 0>>, <<1, 1>>}), LegacyJob(6, FALSE, 0, 2, {}),
      LegacyJob(7, TRUE, 1, 1, {<<1, 2>>}), LegacyJob(5, TRUE, 2, 2, {<<2, 0>>})>>

Question(backend, gpuBuild, gpu, accelerator, max, words) ==
    [backend |-> backend, gpuBuild |-> gpuBuild, gpu |-> gpu, accelerator |-> accelerator,
     valid |-> TRUE, difficulty |-> 5, max |-> max, words |-> words]

\* The words are on both sides of the difficulty in either half.
Never == <<5, 8, 9, 13, 5, 6, 12, 9>>
Once == <<9, 5, 8, 12, 6, 4, 9, 8>>
Twice == <<9, 4, 0, 5, 3, 8, 9, 6>>
PastLimit == <<9, 8, 5, 12, 6, 8, 2, 5>>

MCGuesses ==
    <<Question("auto", TRUE, TRUE, TRUE, 4, Twice), Question("auto", TRUE, TRUE, TRUE, 7, Once),
      Question("gpu", TRUE, FALSE, TRUE, 5, PastLimit), Question("gpu", TRUE, TRUE, TRUE, 4, Never),
      Question("gpu", TRUE, FALSE, FALSE, 4, Twice), Question("auto", TRUE, TRUE, FALSE, 5, PastLimit),
      Question("auto", TRUE, FALSE, FALSE, 4, Twice), Question("honeycrisp", TRUE, TRUE, TRUE, 4, Never),
      Question("cpu", FALSE, FALSE, FALSE, 5, Once), Question("gpu", FALSE, FALSE, FALSE, 3, Once),
      Question("gpu", TRUE, TRUE, TRUE, 0, Twice),
      [Question("auto", TRUE, TRUE, TRUE, 4, Twice) EXCEPT !.valid = FALSE]>>

MCThreads == 0..2
===============================================================================
