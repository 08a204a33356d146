----------------------------- MODULE MCAsyncLog -----------------------------
EXTENDS AsyncLog

MCBufs == 1..6
=============================================================================
