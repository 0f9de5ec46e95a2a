---- MODULE MCClientDps ----
EXTENDS ClientDps
====
