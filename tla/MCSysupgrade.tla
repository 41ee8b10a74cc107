---------------------------- MODULE MCSysupgrade ----------------------------
EXTENDS Sysupgrade
=============================================================================
