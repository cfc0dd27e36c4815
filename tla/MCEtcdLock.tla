------------------------------ MODULE MCEtcdLock ------------------------------
EXTENDS EtcdLock, TLC

CONSTANTS l1, l2

MCLockers == {l1, l2}
===============================================================================
