SPECIFICATION Spec
PROPERTIES FailureLoggedOnce
