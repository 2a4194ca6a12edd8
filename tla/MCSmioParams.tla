---- MODULE MCSmioParams ----
EXTENDS SmioParams
MCSmios == DOMAIN Table
MCTrigger == {"trigger_iface"}
====
