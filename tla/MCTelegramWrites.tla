--------------------------- MODULE MCTelegramWrites ---------------------------
EXTENDS TelegramWrites
CONSTANTS w1, w2
=============================================================================
