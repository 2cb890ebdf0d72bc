----------------------------- MODULE MCLauncher -----------------------------
EXTENDS Launcher
=============================================================================
