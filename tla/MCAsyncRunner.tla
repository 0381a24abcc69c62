--------------------------- MODULE MCAsyncRunner ---------------------------
EXTENDS AsyncRunner
=============================================================================
