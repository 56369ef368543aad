--------------------------- MODULE MCLoadGenerator ---------------------------
EXTENDS LoadGenerator

Words(bytes, n) == UNION {[1..k -> bytes] : k \in 0..n}

\* Long enough for the thread to read a block, a part of one and then nothing.
ManyFiles == Words({"x", "n"}, 10) \cup Words({"x", "n", "r", "m"}, 6)
RowFiles == {<<"x">>, <<"x", "n", "x", "n">>, <<"x", "n", "x", "x", "n", "x">>}

MCFiles == ManyFiles
MCRates == {0, 1, 2, 3, 7}

Setup(files, readers, repeats, times, rates) ==
  [file : files, reader : readers, enable_repeat : repeats, req_times : times, rate : rates]

\* Reading is checked on many files, the rest on a few.
MCSetups ==
  Setup(ManyFiles, {"preload"}, {TRUE}, {1}, {0})
    \cup Setup(RowFiles, {"preload", "async"}, BOOLEAN, {0, 2, 4}, {2})
    \cup Setup({<<"x">>}, {"preload"}, {TRUE}, {0}, MCRates)
=============================================================================
