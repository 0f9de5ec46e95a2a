---- MODULE MCLanLink ----
EXTENDS LanLink
Auto == <<"3.4", "3.5", "3.5.1", "3.3">>
====
