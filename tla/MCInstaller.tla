----------------------------- MODULE MCInstaller ----------------------------
EXTENDS Installer
=============================================================================
