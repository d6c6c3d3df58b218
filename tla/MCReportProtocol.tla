-------------------------- MODULE MCReportProtocol --------------------------
EXTENDS ReportProtocol

CONSTANT q1
=============================================================================
