----------------------------- MODULE DeliveryMC -----------------------------
(* A TLC instance of Delivery. *)
EXTENDS Delivery

Frame(signal, series, status, explanation, evidence) ==
    [signal |-> signal, series |-> series, status |-> status, priced |-> TRUE,
     explanation |-> explanation, evidence |-> evidence]

\* A caption of one part, one of several whose last line is torn, one that is no BUY.
SomeFrames == {Frame("s1", "BTC", "BUY_SIGNAL", <<3>>, <<2>>),
               Frame("s2", "ETH", "BUY_SIGNAL", <<1, 4, 2>>, <<9, 8, 6>>),
               Frame("s3", "BTC", "BEARISH_AVOID", <<1>>, <<1>>)}

Drawing(series, renders) == [series |-> series, renders |-> renders]
SomeDrawings == {None, Drawing("BTC", TRUE), Drawing("BTC", FALSE)}

Everything(b) == [signal |-> b, setup |-> b, halal |-> b, times |-> b, marker |-> b, split |-> b]

Config(enabled, deduplicate, dryRun, telegram, charts, shown) ==
    [enabled |-> enabled, deduplicate |-> deduplicate, dryRun |-> dryRun,
     telegram |-> telegram, charts |-> charts, show |-> Everything(shown)]

LiveSetup == Config(TRUE, TRUE, FALSE, TRUE, TRUE, TRUE)

SomeSetups == {LiveSetup,
               Config(FALSE, TRUE, FALSE, TRUE, TRUE, TRUE),
               Config(TRUE, TRUE, TRUE, TRUE, TRUE, TRUE),
               Config(TRUE, TRUE, FALSE, FALSE, TRUE, TRUE),
               Config(TRUE, FALSE, FALSE, TRUE, FALSE, FALSE)}
OnlyLive == {LiveSetup}

\* One answer of each meaning; the others differ only in the failure category.
SomeAnswers ==
    {Status(200, TRUE), Status(200, FALSE), Status(429, FALSE), ApiError, Timeout, Broken}

Places == {"chat", "nowhere"}
Known  == {"chat"}
Short  == {0, 1}
Long   == {3}
=============================================================================
